---------------------------- MODULE Spec2Model ----------------------------
(***************************************************************************)
(* USB HID boot keyboard -> PS/2 converter (STM32F411).                    *)
(*                                                                         *)
(* Three cooperating pieces are modelled, each from its C source:          *)
(*   - the capture queue        src/src/usb/keyboard_handler.c             *)
(*   - the scan-code translator src/src/ps2/scancode_translator.c          *)
(*   - the PS/2 framer          src/src/ps2/ps2_init.c                     *)
(*                                                                         *)
(* Bytes are naturals 0..255; uint8_t arithmetic is taken modulo 256.      *)
(* C arrays are 0-based; tuples here are 1-based, so a[i] in C is a[i+1].  *)
(***************************************************************************)
EXTENDS Naturals, Integers, Sequences, FiniteSets, TLC

VARIABLES
    \* ---- keyboard_handler.c, file-scope state
    keyboard_buffer,        \* USB_HID_KeyboardData_t keyboard_buffer[16]
    buffer_head,            \* volatile uint8_t
    buffer_tail,            \* volatile uint8_t
    buffer_count,           \* volatile uint8_t
    last_keyboard_state,    \* last captured snapshot
    \* ---- main context, inside keyboard_handler_get_data / clear_buffer
    mpc,                    \* position of the main context
    reg,                    \* register holding the loaded buffer_count
    gd_out,                 \* the caller's *keyboard_data
    \* ---- environment and observers of the capture queue
    nsent,                  \* reports delivered so far
    nclear,                 \* clear_buffer calls started so far
    pending,                \* snapshots enqueued and not yet handed out
    live,                   \* slots holding such snapshots
    overwritten,            \* a live slot has been written by the producer
    primask,                \* PRIMASK: 1 while interrupts are masked
    primask_entry,          \* PRIMASK when the running get_data or clear_buffer was entered
    \* ---- scancode_translator.c, file-scope state, and its caller's object
    translator_status,      \* TranslatorStatus_t
    last_usb_state,         \* the snapshot of the last successful call
    ps2_scancode,           \* the caller's PS2_ScanCode_t (main.c)
    ntrans,                 \* translate calls made so far
    \* ---- ps2_init.c, file-scope state, the two lines, ps2_send_byte's frame
    ps2_status,             \* PS2_Status_t
    ps2_clk,                \* level of the clock line
    ps2_data,               \* level of the data line
    sb_data,                \* ps2_send_byte: the argument
    sb_parity,              \* ps2_send_byte: the local parity
    sb_bit,                 \* ps2_send_byte: which of the 11 ps2_send_bit calls
    sb_pc,                  \* position inside ps2_send_bit
    sb_ret,                 \* the value ps2_send_byte returned last
    sb_call,                \* who called ps2_send_byte, and the status then
    wire,                   \* data-line levels at the falling clock edges
    fpc,                    \* position inside ps2_init / ps2_send_scancode
    ss_code,                \* ps2_send_scancode: the argument
    ss_i,                   \* ps2_send_scancode: the loop index
    bus,                    \* frames completed by the current ps2_send_scancode
    ps2_timer_active,       \* volatile uint8_t
    sent_down,              \* keys whose make code was sent last
    \* ---- usb_host_init.c, file-scope state
    device_connected,       \* uint8_t
    usb_host_status,        \* USB_HostStatus_t
    retry_count,            \* uint32_t
    \* ---- main.c: the main context outside the calls
    lpc,                    \* position inside main / main_application_loop
    mret,                   \* the value returned to the main context last
    \* ---- observer of all parts
    ev                      \* the call that returned in the last step

qvars == <<keyboard_buffer, buffer_head, buffer_tail, buffer_count,
           last_keyboard_state, mpc, reg, gd_out, nsent, nclear, pending,
           live, overwritten, primask, primask_entry>>

tvars == <<translator_status, last_usb_state, ps2_scancode, ntrans>>

fvars == <<ps2_status, ps2_clk, ps2_data, sb_data, sb_parity, sb_bit, sb_pc,
           sb_ret, sb_call, wire, fpc, ss_code, ss_i, bus, ps2_timer_active, sent_down>>

\* the USB host state and the position of main
ovars == <<device_connected, usb_host_status, retry_count, lpc>>

vars == <<qvars, tvars, fvars, ovars, mret, ev>>

-----------------------------------------------------------------------------
(* Bounds of the model *)

\* fresh reports the environment delivers in the queue specifications
MaxReports == 18
\* reports the environment delivers in the specification with clear_buffer
MaxQueueReports == 4
\* clear_buffer calls the main context makes
MaxClears == 2
\* reports the environment delivers in the capture specification
MaxCaptureReports == 3
\* translate calls in the specification of modifier and key changes
MaxTranslations == 3
\* reports the environment delivers while the main loop runs
MaxMainReports == 2
\* translate calls in the specification of key changes
MaxKeyTranslations == 2

-----------------------------------------------------------------------------
(* keyboard_handler.c : constants and the snapshot type *)

KEYBOARD_REPORT_SIZE == 8
KEYBOARD_MODIFIER_OFFSET == 0
KEYBOARD_KEY_OFFSET == 2
KEYBOARD_MAX_KEYS == 6
KEYBOARD_BUFFER_SIZE == 16
USB_HID_MAX_KEYS == 6

\* memset(&x, 0, sizeof(USB_HID_KeyboardData_t))
ZeroKeyboardData ==
    [modifier |-> 0, reserved |-> 0,
     keys |-> [i \in 1..USB_HID_MAX_KEYS |-> 0], key_count |-> 0]

\* The object representation of USB_HID_KeyboardData_t: nine uint8_t, no padding.
StructBytes(kd) ==
    <<kd.modifier, kd.reserved>> \o kd.keys \o <<kd.key_count>>

\* a comparison of the modifier and the key count only
memcmp_differs_shallow(a, b) ==
    a.modifier # b.modifier \/ a.key_count # b.key_count

\* memcmp(a, b, sizeof(USB_HID_KeyboardData_t)) != 0
memcmp_differs(a, b) ==
    \E i \in 1..(USB_HID_MAX_KEYS + 3) : StructBytes(a)[i] # StructBytes(b)[i]

RECURSIVE ParseKeysKeepRollover(_, _, _)
ParseKeysKeepRollover(report, i, kd) ==
    IF i >= KEYBOARD_MAX_KEYS THEN kd
    ELSE LET key_code == report[KEYBOARD_KEY_OFFSET + i + 1] IN
         IF key_code # 0
         THEN ParseKeysKeepRollover(report, i + 1,
                        [kd EXCEPT !.keys[kd.key_count + 1] = key_code,
                                   !.key_count = kd.key_count + 1])
         ELSE ParseKeysKeepRollover(report, i + 1, kd)

\* keyboard_parse_hid_report: the loop over bytes 2..7 from index i on
RECURSIVE ParseKeys(_, _, _)
ParseKeys(report, i, kd) ==
    IF i >= KEYBOARD_MAX_KEYS THEN kd
    ELSE LET key_code == report[KEYBOARD_KEY_OFFSET + i + 1] IN
         IF key_code # 0 /\ key_code # 1
         THEN ParseKeys(report, i + 1,
                        [kd EXCEPT !.keys[kd.key_count + 1] = key_code,
                                   !.key_count = kd.key_count + 1])
         ELSE ParseKeys(report, i + 1, kd)

\* A parser that also copies the reserved byte of the report
keyboard_parse_hid_report_reserved(report) ==
    ParseKeys(report, 0,
              [ZeroKeyboardData EXCEPT
                  !.modifier = report[KEYBOARD_MODIFIER_OFFSET + 1],
                  !.reserved = report[KEYBOARD_MODIFIER_OFFSET + 2]])

keyboard_parse_hid_report(report) ==
    ParseKeys(report, 0,
              [ZeroKeyboardData EXCEPT
                  !.modifier = report[KEYBOARD_MODIFIER_OFFSET + 1]])

keyboard_buffer_is_full_late == buffer_count > KEYBOARD_BUFFER_SIZE

keyboard_buffer_is_full == buffer_count >= KEYBOARD_BUFFER_SIZE

keyboard_buffer_is_empty == buffer_count = 0

\* __disable_irq() / __enable_irq() as this build defines them
\* (src/include/stm32f4xx_hal.h): empty statements.  They mask nothing, so
\* the producer interrupt can be taken between any two steps of the main
\* context.
disable_irq_masks == FALSE

\* A macro __enable_irq() that clears PRIMASK, as CMSIS defines it
enable_irq_cpsie(mask) == 0

\* PRIMASK after __disable_irq() and after __enable_irq()
disable_irq(mask) == IF disable_irq_masks THEN 1 ELSE mask

enable_irq(mask) == IF disable_irq_masks THEN 0 ELSE mask

-----------------------------------------------------------------------------
(* The environment's reports *)

\* The n-th fresh report: 17 consecutive ones parse to 17 distinct snapshots
\* (the first key differs); the reserved byte, a rollover code and a second
\* key vary.
FreshReport(n) ==
    << IF n % 4 = 3 THEN 2 ELSE 0,
       IF n % 2 = 1 THEN 85 ELSE 0,
       4 + (n % 17),
       IF n % 3 = 1 THEN 1 ELSE 0,
       IF n % 3 = 2 THEN 30 + (n % 5) ELSE 0,
       0, 0, 0 >>

\* A report with other bytes that shows the same keyboard state as kd:
\* reserved byte set, rollover codes first, the keys last.
EquivReport(kd) ==
    <<kd.modifier, 170>> \o
    [i \in 1..KEYBOARD_MAX_KEYS |->
        IF i <= KEYBOARD_MAX_KEYS - kd.key_count THEN 1
        ELSE kd.keys[i - (KEYBOARD_MAX_KEYS - kd.key_count)]]

FifoReports == {FreshReport(nsent), EquivReport(last_keyboard_state)}

\* Reports of the capture specification: each differs from another one in
\* the modifier only, the key count only, one key only, or the order only.
CaptureReports ==
    { <<0, 0, 0, 0, 0, 0, 0, 0>>,
      <<0, 0, 1, 1, 1, 1, 1, 1>>,
      <<0, 0, 4, 0, 0, 0, 0, 0>>,
      <<0, 9, 0, 0, 4, 0, 0, 0>>,
      <<2, 0, 4, 0, 0, 0, 0, 0>>,
      <<0, 0, 4, 5, 0, 0, 0, 0>>,
      <<0, 0, 5, 4, 0, 0, 0, 0>>,
      <<0, 0, 4, 4, 0, 0, 0, 0>>,
      <<0, 0, 4, 6, 0, 0, 0, 0>> }

\* Reports handed to the parser alone: three modifier bytes, two reserved
\* bytes, every arrangement of 0x00, 0x01 and two key codes in bytes 2..7.
ParseReports ==
    { <<m, r>> \o k : m \in {0, 2, 255}, r \in {0, 170},
                      k \in [1..KEYBOARD_MAX_KEYS -> {0, 1, 4, 5}] }

-----------------------------------------------------------------------------
(* keyboard_handler.c : operations *)

NoCall == [op |-> "none"]

\* keyboard_handler_process_report(report, 8), run to completion in the
\* report-arrival interrupt.  keyboard_buffer_put repeats the full test.
ProcessReportEffect(report) ==
    LET keyboard_data == keyboard_parse_hid_report(report) IN
    IF memcmp_differs(keyboard_data, last_keyboard_state)
    THEN IF ~keyboard_buffer_is_full
         THEN /\ keyboard_buffer' =
                    [keyboard_buffer EXCEPT ![buffer_head] = keyboard_data]
              /\ buffer_head' = (buffer_head + 1) % KEYBOARD_BUFFER_SIZE
              /\ buffer_count' = (buffer_count + 1) % 256
              /\ last_keyboard_state' = keyboard_data
              /\ pending' = Append(pending, keyboard_data)
              /\ live' = live \cup {buffer_head}
              /\ overwritten' = (overwritten \/ buffer_head \in live)
              /\ primask' = enable_irq(disable_irq(primask))
              /\ UNCHANGED primask_entry
              /\ ev' = [op |-> "process_report", report |-> report,
                        ret |-> "KEYBOARD_HANDLER_OK"]
         ELSE /\ UNCHANGED <<keyboard_buffer, buffer_head, buffer_count,
                             last_keyboard_state, pending, live, overwritten,
                             primask, primask_entry>>
              /\ ev' = [op |-> "process_report", report |-> report,
                        ret |-> "KEYBOARD_HANDLER_BUFFER_FULL"]
    ELSE /\ UNCHANGED <<keyboard_buffer, buffer_head, buffer_count,
                        last_keyboard_state, pending, live, overwritten,
                        primask, primask_entry>>
         /\ ev' = [op |-> "process_report", report |-> report,
                   ret |-> "KEYBOARD_HANDLER_OK"]

\* The interrupt is taken when delivery is not masked: always, in this build.
IrqDeliverable ==
    /\ primask = 0
    /\ ~disable_irq_masks \/ mpc = "idle" \/ mpc = "gd_check"

ProcessReport(report) ==
    /\ IrqDeliverable
    /\ ProcessReportEffect(report)
    /\ UNCHANGED <<buffer_tail, mpc, reg, gd_out, nclear, tvars, fvars, ovars, mret>>

\* keyboard_parse_hid_report applied to one report, from the state after
\* construction
ParseReport ==
    /\ ev = NoCall
    /\ \E report \in ParseReports :
           ev' = [op |-> "parse", report |-> report,
                  data |-> keyboard_parse_hid_report(report)]
    /\ UNCHANGED <<qvars, tvars, fvars, ovars, mret>>

\* A fresh report, or one equivalent to the last captured state.
ReportArrives ==
    /\ nsent < MaxReports
    /\ \E report \in FifoReports :
          /\ ProcessReport(report)
          /\ nsent' = IF report = FreshReport(nsent) THEN nsent + 1 ELSE nsent

\* A get_data that waits until the queue holds a snapshot
GetDataEnterWaits ==
    /\ mpc = "idle"
    /\ ~keyboard_buffer_is_empty
    /\ ev' = NoCall
    /\ mpc' = "gd_check"
    /\ UNCHANGED <<keyboard_buffer, buffer_head, buffer_tail, buffer_count,
                   last_keyboard_state, reg, gd_out, primask, nsent, nclear, pending, live,
                   overwritten,
                   tvars, fvars, ovars, mret>>
    /\ primask_entry' = primask

\* keyboard_handler_get_data, line 113: the first emptiness test
GetDataEnter ==
    /\ mpc = "idle"
    /\ IF keyboard_buffer_is_empty
       THEN /\ ev' = [op |-> "get_data", ret |-> "KEYBOARD_NO_DATA",
                      left |-> Len(pending)]
            /\ mpc' = "idle"
       ELSE /\ ev' = NoCall
            /\ mpc' = "gd_check"
    /\ UNCHANGED <<keyboard_buffer, buffer_head, buffer_tail, buffer_count,
                   last_keyboard_state, reg, gd_out, primask, nsent, nclear, pending, live,
                   overwritten,
                   tvars, fvars, ovars>>
    /\ mret' = IF keyboard_buffer_is_empty THEN "KEYBOARD_NO_DATA" ELSE mret
    /\ primask_entry' = primask

\* keyboard_buffer_get, line 231: the second emptiness test
GetDataCheck ==
    /\ mpc = "gd_check"
    /\ IF keyboard_buffer_is_empty
       THEN /\ mpc' = "idle"
            /\ ev' = [op |-> "get_data", ret |-> "KEYBOARD_DATA_AVAILABLE",
                      data |-> gd_out, copied |-> FALSE]
       ELSE /\ mpc' = "gd_copy"
            /\ ev' = NoCall
    /\ UNCHANGED <<keyboard_buffer, buffer_head, buffer_tail, buffer_count,
                   last_keyboard_state, reg, gd_out, nsent, nclear, pending, live,
                   overwritten,
                   tvars, fvars, ovars>>
    /\ mret' = IF keyboard_buffer_is_empty THEN "KEYBOARD_DATA_AVAILABLE"
               ELSE mret
    /\ primask' = IF keyboard_buffer_is_empty
                   THEN enable_irq(disable_irq(primask))
                   ELSE disable_irq(primask)
    /\ UNCHANGED primask_entry

\* line 232: memcpy(data, &keyboard_buffer[buffer_tail], ...)
GetDataCopy ==
    /\ mpc = "gd_copy"
    /\ gd_out' = keyboard_buffer[buffer_tail]
    /\ live' = live \ {buffer_tail}
    /\ mpc' = "gd_tail"
    /\ ev' = NoCall
    /\ UNCHANGED <<keyboard_buffer, buffer_head, buffer_tail, buffer_count,
                   last_keyboard_state, reg, primask, primask_entry, nsent, nclear, pending, overwritten,
                   tvars, fvars, ovars, mret>>

\* line 233: buffer_tail = (buffer_tail + 1) % KEYBOARD_BUFFER_SIZE
GetDataTail ==
    /\ mpc = "gd_tail"
    /\ buffer_tail' = (buffer_tail + 1) % KEYBOARD_BUFFER_SIZE
    /\ mpc' = "gd_load"
    /\ ev' = NoCall
    /\ UNCHANGED <<keyboard_buffer, buffer_head, buffer_count,
                   last_keyboard_state, reg, gd_out, primask, primask_entry, nsent, nclear, pending, live,
                   overwritten,
                   tvars, fvars, ovars, mret>>

\* line 234, buffer_count--: the load of the volatile byte
GetDataLoad ==
    /\ mpc = "gd_load"
    /\ reg' = buffer_count
    /\ mpc' = "gd_store"
    /\ ev' = NoCall
    /\ UNCHANGED <<keyboard_buffer, buffer_head, buffer_tail, buffer_count,
                   last_keyboard_state, gd_out, primask, primask_entry, nsent, nclear, pending, live,
                   overwritten,
                   tvars, fvars, ovars, mret>>

\* line 234, buffer_count--: the store; then get_data returns (line 118)
GetDataStore ==
    /\ mpc = "gd_store"
    /\ buffer_count' = (reg - 1) % 256
    /\ mpc' = "idle"
    /\ ev' = [op |-> "get_data", ret |-> "KEYBOARD_DATA_AVAILABLE",
              data |-> gd_out, copied |-> TRUE,
              expected |-> IF pending = <<>> THEN NoCall ELSE Head(pending)]
    /\ pending' = IF pending = <<>> THEN pending ELSE Tail(pending)
    /\ UNCHANGED <<keyboard_buffer, buffer_head, buffer_tail,
                   last_keyboard_state, reg, gd_out, nsent, nclear, live, overwritten,
                   tvars, fvars, ovars>>
    /\ mret' = "KEYBOARD_DATA_AVAILABLE"
    /\ primask' = enable_irq(primask)
    /\ UNCHANGED primask_entry

GetData ==
    \/ GetDataEnter
    \/ GetDataCheck
    \/ GetDataCopy
    \/ GetDataTail
    \/ GetDataLoad
    \/ GetDataStore

\* keyboard_handler_clear_buffer, line 149: buffer_head = 0.  The snapshots
\* queued when the call starts are dropped from here on.
ClearHead ==
    /\ mpc = "idle"
    /\ nclear < MaxClears
    /\ nclear' = nclear + 1
    /\ buffer_head' = 0
    /\ pending' = <<>>
    /\ live' = {}
    /\ mpc' = "cl_tail"
    /\ ev' = NoCall
    /\ UNCHANGED <<keyboard_buffer, buffer_tail, buffer_count,
                   last_keyboard_state, reg, gd_out, nsent, overwritten,
                   tvars, fvars, ovars, mret>>
    /\ primask' = disable_irq(primask)
    /\ primask_entry' = primask

\* line 150: buffer_tail = 0
ClearTail ==
    /\ mpc = "cl_tail"
    /\ buffer_tail' = 0
    /\ mpc' = "cl_count"
    /\ ev' = NoCall
    /\ UNCHANGED <<keyboard_buffer, buffer_head, buffer_count,
                   last_keyboard_state, reg, gd_out, primask, primask_entry, nsent, nclear, pending, live,
                   overwritten,
                   tvars, fvars, ovars, mret>>

\* line 151: buffer_count = 0; the call returns.  A snapshot enqueued while
\* the call ran counts as queued before the clear.
ClearCount ==
    /\ mpc = "cl_count"
    /\ buffer_count' = 0
    /\ pending' = <<>>
    /\ live' = {}
    /\ mpc' = "idle"
    /\ ev' = [op |-> "clear_buffer"]
    /\ UNCHANGED <<keyboard_buffer, buffer_head, buffer_tail,
                   last_keyboard_state, reg, gd_out, nsent, nclear, overwritten,
                   tvars, fvars, ovars, mret>>
    /\ primask' = enable_irq(primask)
    /\ UNCHANGED primask_entry

ClearBuffer ==
    \/ ClearHead
    \/ ClearTail
    \/ ClearCount

-----------------------------------------------------------------------------
(* ps2_protocol.c : scan-code constructors *)

PS2_MAX_SCANCODE_LENGTH == 4
PS2_BREAK_CODE_PREFIX == 240
PS2_EXTENDED_CODE_PREFIX == 224

\* A PS2_ScanCode_t object: data[4] and length.  A constructor stores the
\* length and the first length bytes only; what it stores is written here as
\* the sequence of those bytes.
ps2_create_make_code(key_code) == <<key_code>>

ps2_create_break_code_swapped(key_code) == <<key_code, PS2_BREAK_CODE_PREFIX>>

ps2_create_break_code(key_code) == <<PS2_BREAK_CODE_PREFIX, key_code>>

ps2_create_extended_make_code_plain(key_code) == <<key_code>>

ps2_create_extended_make_code(key_code) ==
    <<PS2_EXTENDED_CODE_PREFIX, key_code>>

ps2_create_extended_break_code(key_code) ==
    <<PS2_EXTENDED_CODE_PREFIX, PS2_BREAK_CODE_PREFIX, key_code>>

\* ps2_validate_scancode(src) == PS2_PROTOCOL_OK, src given by its bytes
ps2_validate_scancode(src) ==
    Len(src) # 0 /\ Len(src) <= PS2_MAX_SCANCODE_LENGTH

\* ps2_copy_scancode(dest, src): dest afterwards.  Bytes of dest beyond the
\* copied length keep their old value.
ps2_copy_scancode(dest, src) ==
    IF ~ps2_validate_scancode(src) THEN dest
    ELSE [data |-> [i \in 1..PS2_MAX_SCANCODE_LENGTH |->
                       IF i <= Len(src) THEN src[i] ELSE dest.data[i]],
          length |-> Len(src)]

\* The bytes a PS2_ScanCode_t object says it holds
ScanCodeBytes(sc) == [i \in 1..sc.length |-> sc.data[i]]

\* A ps2_create_scancode without the test of the upper length: the bytes
\* that fit are stored with the length as given
ps2_create_scancode_unbounded(scancode, data, length) ==
    IF length = 0
    THEN [ret |-> "PS2_PROTOCOL_ERROR", scancode |-> scancode]
    ELSE [ret |-> "PS2_PROTOCOL_OK",
          scancode |-> [data |-> [i \in 1..PS2_MAX_SCANCODE_LENGTH |->
                                     IF i <= length THEN data[i]
                                     ELSE scancode.data[i]],
                        length |-> length]]

\* ps2_create_scancode(scancode, data, length): the value returned and
\* *scancode afterwards
ps2_create_scancode(scancode, data, length) ==
    IF length = 0 \/ length > PS2_MAX_SCANCODE_LENGTH
    THEN [ret |-> "PS2_PROTOCOL_ERROR", scancode |-> scancode]
    ELSE [ret |-> "PS2_PROTOCOL_OK",
          scancode |-> [data |-> [i \in 1..PS2_MAX_SCANCODE_LENGTH |->
                                     IF i <= length THEN data[i]
                                     ELSE scancode.data[i]],
                        length |-> length]]

\* Key codes and lengths the functions of ps2_protocol.c are applied to
ProtocolKeyCodes == {0, 28, 116, 255}

ProtocolLengths == 0..6

ProtocolData == <<225, 20, 119, 225, 240, 20>>

\* The constructors, ps2_create_scancode and ps2_validate_scancode applied
\* to one input, before main runs
ProtocolProbe ==
    /\ lpc = "boot"
    /\ \E key_code \in ProtocolKeyCodes, length \in ProtocolLengths :
          ev' = [op |-> "ps2_protocol", key_code |-> key_code,
                 length |-> length,
                 make |-> ps2_create_make_code(key_code),
                 break |-> ps2_create_break_code(key_code),
                 extended_make |-> ps2_create_extended_make_code(key_code),
                 extended_break |-> ps2_create_extended_break_code(key_code),
                 created |-> ps2_create_scancode(
                                 [data |-> <<0, 0, 0, 0>>, length |-> 0],
                                 ProtocolData, length),
                 valid |-> ps2_validate_scancode(
                               SubSeq(ProtocolData, 1, length))]
    /\ UNCHANGED <<qvars, tvars, fvars, ovars, mret>>

-----------------------------------------------------------------------------
(* scancode_translator.c *)

MAX_TRANSLATION_BUFFER == 8

USB_HID_MODIFIER_LEFT_CTRL == 1
USB_HID_MODIFIER_LEFT_SHIFT == 2
USB_HID_MODIFIER_LEFT_ALT == 4
USB_HID_MODIFIER_LEFT_GUI == 8
USB_HID_MODIFIER_RIGHT_CTRL == 16
USB_HID_MODIFIER_RIGHT_SHIFT == 32
USB_HID_MODIFIER_RIGHT_ALT == 64
USB_HID_MODIFIER_RIGHT_GUI == 128

\* key_mapping_table: <<usb_key, ps2_key, is_extended>>, closed by the
\* end-of-table marker
key_mapping_table ==
    << <<4, 28, 0>>,  <<5, 50, 0>>,  <<6, 33, 0>>,
       <<7, 35, 0>>,  <<8, 36, 0>>,  <<9, 43, 0>>,
       <<10, 52, 0>>, <<11, 51, 0>>, <<12, 67, 0>>,
       <<13, 59, 0>>, <<14, 66, 0>>, <<15, 75, 0>>,
       <<16, 58, 0>>, <<17, 49, 0>>, <<18, 68, 0>>,
       <<19, 77, 0>>, <<20, 21, 0>>, <<21, 45, 0>>,
       <<22, 27, 0>>, <<23, 44, 0>>, <<24, 60, 0>>,
       <<25, 42, 0>>, <<26, 29, 0>>, <<27, 34, 0>>,
       <<28, 53, 0>>, <<29, 26, 0>>,
       <<30, 22, 0>>, <<31, 30, 0>>, <<32, 38, 0>>,
       <<33, 37, 0>>, <<34, 46, 0>>, <<35, 54, 0>>,
       <<36, 61, 0>>, <<37, 62, 0>>, <<38, 70, 0>>,
       <<39, 69, 0>>,
       <<40, 90, 0>>, <<41, 118, 0>>,
       <<42, 102, 0>>, <<43, 13, 0>>,
       <<44, 41, 0>>,
       <<58, 5, 0>>,  <<59, 6, 0>>,  <<60, 4, 0>>,
       <<61, 12, 0>>, <<62, 3, 0>>,  <<63, 11, 0>>,
       <<64, 131, 0>>, <<65, 10, 0>>, <<66, 1, 0>>,
       <<67, 9, 0>>,  <<68, 120, 0>>, <<69, 7, 0>>,
       <<73, 112, 1>>, <<74, 108, 1>>,
       <<75, 125, 1>>, <<76, 113, 1>>,
       <<77, 105, 1>>, <<78, 122, 1>>,
       <<79, 116, 1>>, <<80, 107, 1>>,
       <<81, 114, 1>>, <<82, 117, 1>>,
       <<0, 0, 0>> >>

find_ps2_scancode_any(usb_key) ==
    [found |-> TRUE, ps2_key |-> usb_key, is_extended |-> 0]

\* find_ps2_scancode: the loop from table index i (0-based) on
RECURSIVE FindFrom(_, _)
FindFrom(i, usb_key) ==
    IF key_mapping_table[i + 1][1] = 0
    THEN [found |-> FALSE, ps2_key |-> 0, is_extended |-> 0]
    ELSE IF key_mapping_table[i + 1][1] = usb_key
         THEN [found |-> TRUE, ps2_key |-> key_mapping_table[i + 1][2],
               is_extended |-> key_mapping_table[i + 1][3]]
         ELSE FindFrom(i + 1, usb_key)

find_ps2_scancode(usb_key) == FindFrom(0, usb_key)

is_key_in_array(key, array, array_size) ==
    \E i \in 1..array_size : array[i] = key

\* x & mask # 0, for a mask of one bit
BitSet(x, mask) == (x \div mask) % 2 = 1

\* The six tests of translate_modifier_keys, in the order of the code:
\* <<mask, scan code, extended>>
ModifierTests ==
    << <<USB_HID_MODIFIER_LEFT_CTRL, 20, FALSE>>,
       <<USB_HID_MODIFIER_LEFT_SHIFT, 18, FALSE>>,
       <<USB_HID_MODIFIER_LEFT_ALT, 17, FALSE>>,
       <<USB_HID_MODIFIER_RIGHT_SHIFT, 89, FALSE>>,
       <<USB_HID_MODIFIER_RIGHT_CTRL, 20, TRUE>>,
       <<USB_HID_MODIFIER_RIGHT_ALT, 17, TRUE>> >>

\* The event one modifier test stores when its bit changed
ModifierEvent(test, new_modifier) ==
    IF BitSet(new_modifier, test[1])
    THEN IF test[3] THEN ps2_create_extended_make_code(test[2])
                    ELSE ps2_create_make_code(test[2])
    ELSE IF test[3] THEN ps2_create_extended_break_code(test[2])
                    ELSE ps2_create_break_code(test[2])

\* A store into the scancodes array: the index counted from temp_scancodes[0]
\* and the bytes stored.  acc = [stores, count].
RECURSIVE ModifierLoop(_, _, _, _, _)
ModifierLoop(t, old_modifier, new_modifier, base, acc) ==
    IF t > Len(ModifierTests) THEN acc
    ELSE LET test == ModifierTests[t] IN
         IF BitSet(old_modifier, test[1]) # BitSet(new_modifier, test[1])
         THEN ModifierLoop(t + 1, old_modifier, new_modifier, base,
                  [stores |-> Append(acc.stores,
                                 [index |-> base + acc.count,
                                  code |-> ModifierEvent(test, new_modifier)]),
                   count |-> acc.count + 1])
         ELSE ModifierLoop(t + 1, old_modifier, new_modifier, base, acc)

\* translate_modifier_keys(old_modifier, new_modifier, scancodes, count)
\* with scancodes == &temp_scancodes[base] and *count == count on entry
translate_modifier_keys(old_modifier, new_modifier, base, count) ==
    LET acc == ModifierLoop(1, old_modifier, new_modifier, base,
                            [stores |-> <<>>, count |-> count])
    IN  IF acc.count > MAX_TRANSLATION_BUFFER
        THEN [stores |-> acc.stores, count |-> count,
              status |-> "TRANSLATOR_ERROR"]
        ELSE [stores |-> acc.stores, count |-> acc.count,
              status |-> "TRANSLATOR_OK"]

\* The two loops of translate_regular_keys: phase 1 walks old_state for
\* releases, phase 2 walks new_state for presses.
RECURSIVE KeyLoop(_, _, _, _, _, _, _)
KeyLoop(phase, i, old_state, new_state, base, initial_count, acc) ==
    LET src == IF phase = 1 THEN old_state ELSE new_state
        oth == IF phase = 1 THEN new_state ELSE old_state
    IN
    IF i >= src.key_count
    THEN IF phase = 1
         THEN KeyLoop(2, 0, old_state, new_state, base, initial_count, acc)
         ELSE [stores |-> acc.stores, count |-> acc.count,
               status |-> "TRANSLATOR_OK"]
    ELSE LET key == src.keys[i + 1]
             f == find_ps2_scancode(key)
         IN
         IF ~is_key_in_array(key, oth.keys, oth.key_count) /\ f.found
         THEN LET code ==
                     IF phase = 1
                     THEN IF f.is_extended # 0
                          THEN ps2_create_extended_break_code(f.ps2_key)
                          ELSE ps2_create_break_code(f.ps2_key)
                     ELSE IF f.is_extended # 0
                          THEN ps2_create_extended_make_code(f.ps2_key)
                          ELSE ps2_create_make_code(f.ps2_key)
                  next == [stores |-> Append(acc.stores,
                                         [index |-> base + acc.count,
                                          code |-> code]),
                           count |-> acc.count + 1]
              IN  IF next.count >= MAX_TRANSLATION_BUFFER
                  THEN [stores |-> next.stores, count |-> initial_count,
                        status |-> "TRANSLATOR_ERROR"]
                  ELSE KeyLoop(phase, i + 1, old_state, new_state, base,
                               initial_count, next)
         ELSE KeyLoop(phase, i + 1, old_state, new_state, base,
                      initial_count, acc)

\* translate_regular_keys(old_state, new_state, scancodes, count)
\* with scancodes == &temp_scancodes[base] and *count == count on entry
translate_regular_keys(old_state, new_state, base, count) ==
    KeyLoop(1, 0, old_state, new_state, base, count,
            [stores |-> <<>>, count |-> count])

\* Stores of a call that fall outside temp_scancodes[0..7]
OutOfBounds(stores) ==
    SelectSeq(stores, LAMBDA s : s.index >= MAX_TRANSLATION_BUFFER)

\* temp_scancodes[0] after the stores, <<>> while nothing was stored there
TempZero(stores) ==
    LET at0 == SelectSeq(stores, LAMBDA s : s.index = 0)
    IN  IF at0 = <<>> THEN <<>> ELSE at0[Len(at0)].code

\* scancode_translator_usb_to_ps2, lines 122-147, when every store stays
\* inside temp_scancodes: the stores, the return value, *ps2_scancode and
\* last_usb_state afterwards.
TranslateInBounds(last, out, usb_data) ==
    LET m == translate_modifier_keys(last.modifier, usb_data.modifier, 0, 0)
    IN
    IF m.status # "TRANSLATOR_OK"
    THEN [stores |-> m.stores, ret |-> "TRANSLATOR_ERROR",
          out |-> out, last |-> last]
    ELSE LET k == translate_regular_keys(last, usb_data, m.count, m.count)
             stores == m.stores \o k.stores
         IN
         IF k.status # "TRANSLATOR_OK"
         THEN [stores |-> stores, ret |-> "TRANSLATOR_ERROR",
               out |-> out, last |-> last]
         ELSE [stores |-> stores, ret |-> "TRANSLATOR_OK",
               out |-> IF k.count > 0
                       THEN ps2_copy_scancode(out, TempZero(stores))
                       ELSE [out EXCEPT !.length = 0],
               last |-> usb_data]

\* A store at temp_scancodes[8] or above lands on whatever the stack holds
\* behind the array: scancode_count, or the caller's objects *usb_data and
\* *ps2_scancode.  What the call then does is one of:
\*   - what it does when the store hits nothing that is read again;
\*   - scancode_count overwritten by a prefix byte: the bound test fails;
\*   - scancode_count overwritten by a length byte: the bound test passes;
\*   - *ps2_scancode overwritten by the stored code, whatever is returned;
\*   - *usb_data overwritten before it is copied into last_usb_state.
StrayStoreOutcomes(last, out, usb_data, d) ==
    LET stray == OutOfBounds(d.stores)[1].code
        hit_out == ps2_copy_scancode(out, stray)
        hit_usb == [usb_data EXCEPT !.modifier = stray[1]]
        ok_out == ps2_copy_scancode(out, TempZero(d.stores))
    IN  {[ret |-> d.ret, out |-> d.out, last |-> d.last, stores |-> d.stores]}
        \cup {[ret |-> "TRANSLATOR_ERROR", out |-> o, last |-> last,
               stores |-> d.stores] : o \in {out, hit_out}}
        \cup {[ret |-> "TRANSLATOR_OK", out |-> ok_out, last |-> l,
               stores |-> d.stores] : l \in {usb_data, hit_usb}}

\* A translator that does not test translator_status
usb_to_ps2_outcomes_unchecked(status, last, out, usb_data) ==
    LET d == TranslateInBounds(last, out, usb_data) IN
    IF OutOfBounds(d.stores) = <<>>
    THEN {d}
    ELSE StrayStoreOutcomes(last, out, usb_data, d)

\* scancode_translator_usb_to_ps2(usb_data, ps2_scancode): every outcome
usb_to_ps2_outcomes(status, last, out, usb_data) ==
    IF status # "TRANSLATOR_READY"
    THEN {[ret |-> "TRANSLATOR_ERROR", out |-> out, last |-> last,
           stores |-> <<>>]}
    ELSE LET d == TranslateInBounds(last, out, usb_data) IN
         IF OutOfBounds(d.stores) = <<>>
         THEN {d}
         ELSE StrayStoreOutcomes(last, out, usb_data, d)

Translate(usb_data) ==
    /\ ntrans < MaxTranslations
    /\ ntrans' = ntrans + 1
    /\ \E o \in usb_to_ps2_outcomes(translator_status, last_usb_state,
                                    ps2_scancode, usb_data) :
          /\ ps2_scancode' = o.out
          /\ last_usb_state' = o.last
          /\ ev' = [op |-> "translate", usb |-> usb_data, ret |-> o.ret,
                    stores |-> o.stores]
          /\ mret' = o.ret
    /\ UNCHANGED <<translator_status, qvars, fvars, ovars>>

\* scancode_translator_init
TranslatorInit ==
    /\ last_usb_state' = ZeroKeyboardData
    /\ translator_status' = "TRANSLATOR_READY"
    /\ ev' = [op |-> "translator_init"]
    /\ UNCHANGED <<ps2_scancode, ntrans, qvars, fvars, ovars>>
    /\ mret' = "TRANSLATOR_OK"

TranslatorResetKeepsLast ==
    /\ translator_status' = "TRANSLATOR_READY"
    /\ ev' = [op |-> "translator_reset"]
    /\ UNCHANGED <<last_usb_state, ps2_scancode, ntrans, qvars, fvars, ovars, mret>>

\* scancode_translator_reset
TranslatorReset ==
    /\ last_usb_state' = ZeroKeyboardData
    /\ translator_status' = "TRANSLATOR_READY"
    /\ ev' = [op |-> "translator_reset"]
    /\ UNCHANGED <<ps2_scancode, ntrans, qvars, fvars, ovars, mret>>

-----------------------------------------------------------------------------
(* The snapshots handed to the translator *)

Snapshot(modifier, keys) ==
    [modifier |-> modifier, reserved |-> 0,
     keys |-> [i \in 1..USB_HID_MAX_KEYS |->
                  IF i <= Len(keys) THEN keys[i] ELSE 0],
     key_count |-> Len(keys)]

\* usb_key of every entry of key_mapping_table before the marker
MappedKeys ==
    {key_mapping_table[i][1] : i \in 1..(Len(key_mapping_table) - 1)}

\* Snapshots without modifiers: every mapped key alone, an unmapped key, and
\* key lists of two and of six keys.
KeyInputs ==
    {Snapshot(0, <<>>)}
    \cup {Snapshot(0, <<k>>) : k \in MappedKeys \cup {101}}
    \cup {Snapshot(0, <<4, 5, 6, 7, 8, 9>>),
          Snapshot(0, <<10, 11, 12, 13, 14, 15>>),
          Snapshot(0, <<10, 11>>)}

\* Snapshots without modifiers that hold keys missing in the key map
\* (0x32, 0x64 to 0x67), alone and beside mapped keys.
UnmappedInputs ==
    {Snapshot(0, <<>>), Snapshot(0, <<101>>), Snapshot(0, <<101, 102>>),
     Snapshot(0, <<4, 101>>), Snapshot(0, <<50, 4>>),
     Snapshot(0, <<4, 5, 6, 7, 8, 9>>), Snapshot(0, <<10, 101, 102>>),
     Snapshot(0, <<101, 102, 50, 100, 103, 10>>)}

\* Snapshots with modifiers: each modifier bit alone, without and with a key
\* held, several bits at once, and key lists.
TransInputs ==
    {Snapshot(m, <<>>) : m \in {0, 1, 2, 4, 8, 16, 32, 64, 128}}
    \cup {Snapshot(m, <<4>>) : m \in {0, 1, 64}}
    \cup {Snapshot(23, <<4>>), Snapshot(55, <<>>), Snapshot(119, <<>>),
          Snapshot(119, <<4>>), Snapshot(119, <<4, 5>>),
          Snapshot(255, <<>>), Snapshot(1, <<4, 5, 6, 7, 8, 9>>)}
    \cup {Snapshot(0, k) : k \in {<<4, 5>>, <<4, 4>>, <<101>>, <<4, 76>>,
                                  <<4, 5, 6, 7, 8, 9>>, <<10, 11>>}}

-----------------------------------------------------------------------------
(* ps2_init.c : the framer *)

Bytes == 0..255

BitOfMsbFirst(data, bit_count) ==
    IF bit_count <= 7 THEN (data \div (2 ^ (7 - bit_count))) % 2 ELSE 0

\* data & (1 << bit_count), as 0 or 1
BitOf(data, bit_count) == (data \div (2 ^ bit_count)) % 2

\* ps2_send_byte lines 145-153 with parity starting at 0
RECURSIVE ParityLoopEven(_, _, _)
ParityLoopEven(data, bit_count, parity) ==
    IF bit_count >= 8 THEN 1 - parity
    ELSE ParityLoopEven(data, bit_count + 1,
                        IF BitOf(data, bit_count) = 1 THEN 1 - parity
                        ELSE parity)

\* ps2_send_byte lines 145-153: parity = 1, then parity ^= 1 per set bit
RECURSIVE ParityLoop(_, _, _)
ParityLoop(data, bit_count, parity) ==
    IF bit_count >= 8 THEN parity
    ELSE ParityLoop(data, bit_count + 1,
                    IF BitOf(data, bit_count) = 1 THEN 1 - parity
                    ELSE parity)

\* A frame whose stop bit leaves the data line low
SendBitArgumentStopLow(data, parity, n) ==
    IF n = 0 THEN 0
    ELSE IF n <= 8 THEN BitOf(data, n - 1)
    ELSE IF n = 9 THEN parity
    ELSE 0

\* The argument of the n-th ps2_send_bit call of ps2_send_byte, n = 0..10
SendBitArgument(data, parity, n) ==
    IF n = 0 THEN 0
    ELSE IF n <= 8 THEN BitOf(data, n - 1)
    ELSE IF n = 9 THEN parity
    ELSE 1

\* No framer function is running in the main context
FramerIdle == fpc = "idle" /\ sb_pc = "idle"

\* ps2_init lines 44-53: PS2_INIT, the pins configured, both lines set high
Ps2InitBegin ==
    /\ FramerIdle
    /\ ps2_status' = "PS2_INIT"
    /\ ps2_clk' = 1
    /\ ps2_data' = 1
    /\ fpc' = "init"
    /\ ev' = NoCall
    /\ UNCHANGED <<sb_data, sb_parity, sb_bit, sb_pc, sb_ret, sb_call, wire,
                   ss_code, ss_i, bus, sent_down, ps2_timer_active, qvars, tvars, ovars, mret>>

\* ps2_init lines 56-59: after HAL_Delay, PS2_READY and return PS2_OK
Ps2InitEnd ==
    /\ fpc = "init"
    /\ ps2_status' = "PS2_READY"
    /\ fpc' = "idle"
    /\ ev' = [op |-> "ps2_init", ret |-> "PS2_OK"]
    /\ UNCHANGED <<ps2_clk, ps2_data, sb_data, sb_parity, sb_bit, sb_pc,
                   sb_ret, sb_call, wire, ss_code, ss_i, bus,
                   sent_down, ps2_timer_active, qvars, tvars, ovars>>
    /\ mret' = "PS2_OK"

Ps2Init ==
    \/ Ps2InitBegin
    \/ Ps2InitEnd

\* ps2_send_byte(data) is entered: the parity loop.  direct tells a call of
\* the exported function from one made by ps2_send_scancode.
SendByteBody(data, direct) ==
    /\ sb_data' = data
    /\ sb_parity' = ParityLoop(data, 0, 1)
    /\ sb_bit' = 0
    /\ sb_pc' = "set_data"
    /\ sb_call' = [direct |-> direct, status |-> ps2_status]
    /\ wire' = <<>>
    /\ ev' = NoCall
    /\ UNCHANGED <<ps2_clk, ps2_data, sb_ret, sent_down, ps2_timer_active, qvars, tvars, ovars, mret>>

\* ps2_send_byte(data) called as an exported function
SendByteEnter(data) ==
    /\ FramerIdle
    /\ SendByteBody(data, TRUE)
    /\ UNCHANGED <<ps2_status, fpc, ss_code, ss_i, bus>>

\* ps2_send_bit line 181: the data line takes the bit value
SendBitData ==
    /\ sb_pc = "set_data"
    /\ ps2_data' = IF SendBitArgument(sb_data, sb_parity, sb_bit) # 0
                   THEN 1 ELSE 0
    /\ sb_pc' = "clk_low"
    /\ ev' = NoCall
    /\ UNCHANGED <<ps2_status, ps2_clk, sb_data, sb_parity, sb_bit, sb_ret,
                   sb_call, wire, fpc, ss_code, ss_i, bus, sent_down, ps2_timer_active,
                   qvars, tvars, ovars, mret>>

\* ps2_send_bit lines 185-186: clock low; the host samples the data line
SendBitClockLow ==
    /\ sb_pc = "clk_low"
    /\ ps2_clk' = 0
    /\ wire' = IF ps2_clk = 1 THEN Append(wire, ps2_data) ELSE wire
    /\ sb_pc' = "clk_high"
    /\ ev' = NoCall
    /\ UNCHANGED <<ps2_status, ps2_data, sb_data, sb_parity, sb_bit, sb_ret,
                   sb_call, fpc, ss_code, ss_i, bus, sent_down, ps2_timer_active, qvars,
                   tvars, ovars, mret>>

\* ps2_send_bit lines 189-190: clock high; after the 11th call ps2_send_byte
\* returns PS2_OK
SendBitClockHigh ==
    /\ sb_pc = "clk_high"
    /\ ps2_clk' = 1
    /\ IF sb_bit = 10
       THEN /\ sb_pc' = "idle"
            /\ sb_bit' = 0
            /\ sb_ret' = "PS2_OK"
            /\ bus' = IF sb_call.direct THEN bus
                      ELSE Append(bus, [data |-> sb_data, bits |-> wire])
            /\ ev' = [op |-> "send_byte", data |-> sb_data, ret |-> "PS2_OK",
                      bits |-> wire, direct |-> sb_call.direct,
                      status |-> sb_call.status]
       ELSE /\ sb_pc' = "set_data"
            /\ sb_bit' = sb_bit + 1
            /\ ev' = NoCall
            /\ UNCHANGED <<sb_ret, bus>>
    /\ UNCHANGED <<ps2_status, ps2_data, sb_data, sb_parity, sb_call, wire,
                   fpc, ss_code, ss_i, sent_down, ps2_timer_active, qvars, tvars, ovars>>
    /\ mret' = IF sb_bit = 10 /\ sb_call.direct THEN "PS2_OK" ELSE mret

SendByte ==
    \/ \E data \in Bytes : SendByteEnter(data)
    \/ SendBitData
    \/ SendBitClockLow
    \/ SendBitClockHigh

ReadDataFirst(sc, i) == {sc.data[1]}

\* The value read as scancode->data[i]: for i >= 4 the read is past the
\* array, on the length member or on what follows the object.
ReadData(sc, i) ==
    IF i < PS2_MAX_SCANCODE_LENGTH THEN {sc.data[i + 1]}
    ELSE {sc.length, 0}

\* ps2_send_scancode lines 119-123: the status test, PS2_TRANSMITTING
SendScancodeEnter(sc) ==
    /\ FramerIdle
    /\ IF ps2_status # "PS2_READY"
       THEN /\ ev' = [op |-> "send_scancode", code |-> sc,
                      ret |-> "PS2_ERROR", frames |-> <<>>,
                      status |-> ps2_status]
            /\ UNCHANGED <<ps2_status, fpc, ss_code, ss_i, bus>>
       ELSE /\ ps2_status' = "PS2_TRANSMITTING"
            /\ ss_code' = sc
            /\ ss_i' = 0
            /\ fpc' = "loop"
            /\ bus' = <<>>
            /\ ev' = NoCall
    /\ UNCHANGED <<ps2_clk, ps2_data, sb_data, sb_parity, sb_bit, sb_pc,
                   sb_ret, sb_call, wire, sent_down, ps2_timer_active, qvars, tvars, ovars>>
    /\ mret' = IF ps2_status # "PS2_READY" THEN "PS2_ERROR" ELSE mret

\* The data bytes of a sequence of frames
BytesOf(frames) == [i \in 1..Len(frames) |-> frames[i].data]

\* The keys a PS/2 host holds as pressed after it received bytes: a key is
\* the pair of its extended flag and its code.
KeysDownAfter(down, bytes) ==
    IF Len(bytes) = 1 /\ bytes[1] \notin {PS2_EXTENDED_CODE_PREFIX, PS2_BREAK_CODE_PREFIX}
    THEN down \cup {<<0, bytes[1]>>}
    ELSE IF Len(bytes) = 2 /\ bytes[1] = PS2_BREAK_CODE_PREFIX
    THEN down \ {<<0, bytes[2]>>}
    ELSE IF Len(bytes) = 2 /\ bytes[1] = PS2_EXTENDED_CODE_PREFIX
    THEN down \cup {<<1, bytes[2]>>}
    ELSE IF /\ Len(bytes) = 3
            /\ bytes[1] = PS2_EXTENDED_CODE_PREFIX
            /\ bytes[2] = PS2_BREAK_CODE_PREFIX
    THEN down \ {<<1, bytes[3]>>}
    ELSE down

\* lines 126-127 and 133-134: the loop test; ps2_send_byte(data[i]) is
\* called, or PS2_READY is set and PS2_OK returned
SendScancodeLoop ==
    /\ fpc = "loop"
    /\ IF ss_i < ss_code.length
       THEN /\ \E data \in ReadData(ss_code, ss_i) : SendByteBody(data, FALSE)
            /\ fpc' = "byte"
            /\ UNCHANGED <<ps2_status, ss_code, ss_i, bus>>
       ELSE /\ ps2_status' = "PS2_READY"
            /\ fpc' = "idle"
            /\ ev' = [op |-> "send_scancode", code |-> ss_code,
                      ret |-> "PS2_OK", frames |-> bus,
                      status |-> "PS2_READY"]
            /\ mret' = "PS2_OK"
            /\ sent_down' = KeysDownAfter(sent_down, BytesOf(bus))
            /\ UNCHANGED <<ps2_clk, ps2_data, sb_data, sb_parity, sb_bit,
                           sb_pc, sb_ret, sb_call, wire, ss_code, ss_i, bus,
                           ps2_timer_active, qvars, tvars, ovars>>

ByteSendFailedAlways(ret) == TRUE

\* line 127: ps2_send_byte(...) != PS2_OK
ByteSendFailed(ret) == ret # "PS2_OK"

\* lines 127-130 and 126: the value ps2_send_byte returned is tested; on
\* failure PS2_ERROR is set and returned, else i++
SendScancodeByteReturn ==
    /\ fpc = "byte"
    /\ sb_pc = "idle"
    /\ IF ByteSendFailed(sb_ret)
       THEN /\ ps2_status' = "PS2_ERROR"
            /\ fpc' = "idle"
            /\ ev' = [op |-> "send_scancode", code |-> ss_code,
                      ret |-> "PS2_ERROR", frames |-> bus,
                      status |-> "PS2_READY"]
            /\ UNCHANGED ss_i
       ELSE /\ ss_i' = (ss_i + 1) % 256
            /\ fpc' = "loop"
            /\ ev' = NoCall
            /\ UNCHANGED ps2_status
    /\ UNCHANGED <<ps2_clk, ps2_data, sb_data, sb_parity, sb_bit, sb_pc,
                   sb_ret, sb_call, wire, ss_code, bus, sent_down, ps2_timer_active,
                   qvars, tvars, ovars>>
    /\ mret' = IF ByteSendFailed(sb_ret) THEN "PS2_ERROR" ELSE mret

\* ps2_send_scancode called from an interrupt handler while a framer
\* function runs in the main context and the status is not PS2_READY:
\* lines 119-121 return PS2_ERROR
SendScancodeBusy(sc) ==
    /\ ~FramerIdle
    /\ ps2_status # "PS2_READY"
    /\ ev' = [op |-> "send_scancode", code |-> sc, ret |-> "PS2_ERROR",
              frames |-> <<>>, status |-> ps2_status]
    /\ UNCHANGED <<fvars, ovars, mret, qvars, tvars>>

\* A ps2_tick that times a running transmission out
Ps2TickTimesOut ==
    /\ ev' = [op |-> "ps2_tick"]
    /\ ps2_status' = IF ps2_status = "PS2_TRANSMITTING" THEN "PS2_ERROR"
                     ELSE ps2_status
    /\ UNCHANGED <<ps2_clk, ps2_data, sb_data, sb_parity, sb_bit, sb_pc,
                   sb_ret, sb_call, wire, fpc, ss_code, ss_i, bus,
                   sent_down, ps2_timer_active, ovars, mret, qvars, tvars>>

\* ps2_tick, called from HAL_IncTick
Ps2Tick ==
    /\ ev' = [op |-> "ps2_tick"]
    /\ UNCHANGED <<fvars, ovars, mret, qvars, tvars>>

\* ps2_timer_callback
Ps2TimerCallback ==
    /\ ps2_timer_active' = IF ps2_timer_active # 0 THEN 0
                           ELSE ps2_timer_active
    /\ ev' = [op |-> "ps2_timer_callback"]
    /\ UNCHANGED <<ps2_status, ps2_clk, ps2_data, sb_data, sb_parity, sb_bit,
                   sb_pc, sb_ret, sb_call, wire, fpc, ss_code, ss_i, bus,
                   sent_down, qvars, tvars, ovars, mret>>

\* The scan codes handed to ps2_send_scancode: lengths 0 to 5
ScanCodeInputs ==
    {[data |-> <<28, 0, 0, 0>>, length |-> 0],
     [data |-> <<28, 0, 0, 0>>, length |-> 1],
     [data |-> <<240, 28, 0, 0>>, length |-> 2],
     [data |-> <<224, 240, 113, 0>>, length |-> 3],
     [data |-> <<225, 20, 119, 225>>, length |-> 4],
     [data |-> <<225, 20, 119, 225>>, length |-> 5]}

\* The bytes handed to ps2_send_byte beside ps2_send_scancode
ProbeBytes == {0, 28}

SendScancode ==
    \/ \E sc \in ScanCodeInputs : SendScancodeEnter(sc)
    \/ SendScancodeLoop
    \/ SendScancodeByteReturn
    \/ SendBitData
    \/ SendBitClockLow
    \/ SendBitClockHigh

SendByteProbe == \E data \in ProbeBytes : SendByteEnter(data)

SendScancodeFromInterrupt == \E sc \in ScanCodeInputs : SendScancodeBusy(sc)

-----------------------------------------------------------------------------
(* keyboard_handler.c and main.c : the system tick *)

\* keyboard_handler_tick: an empty body
KeyboardHandlerTick ==
    /\ ev' = [op |-> "keyboard_handler_tick"]
    /\ UNCHANGED <<qvars, tvars, fvars, ovars, mret>>

\* HAL_IncTick, in the SysTick interrupt: the tick counter, then
\* keyboard_handler_tick() and ps2_tick().  The counter is read through
\* HAL_GetTick by usb_host_process only, whose time test is an input there.
HalIncTick ==
    /\ ev' = [op |-> "HAL_IncTick"]
    /\ UNCHANGED <<qvars, tvars, fvars, ovars, mret>>

-----------------------------------------------------------------------------
(* usb_host_init.c : connection state *)

\* HAL_HCD_Connect_Callback, in the USB interrupt
HcdConnectCallback ==
    /\ device_connected' = 1
    /\ usb_host_status' = "USB_HOST_DEVICE_CONNECTED"
    /\ retry_count' = 0
    /\ ev' = [op |-> "hcd_connect"]
    /\ UNCHANGED <<qvars, tvars, fvars, lpc, mret>>

\* HAL_HCD_Disconnect_Callback, in the USB interrupt
HcdDisconnectCallback ==
    /\ device_connected' = 0
    /\ usb_host_status' = "USB_HOST_READY"
    /\ retry_count' = 0
    /\ ev' = [op |-> "hcd_disconnect"]
    /\ UNCHANGED <<qvars, tvars, fvars, lpc, mret>>

\* usb_host_process: elapsed says whether more than 100 ms have passed since
\* the last check, hcd_ready whether HAL_HCD_GetState answers
\* HAL_HCD_STATE_READY.  Writes the connection state, and says what it saw.
usb_host_process(elapsed, hcd_ready) ==
    IF elapsed /\ hcd_ready /\ device_connected = 0
    THEN /\ device_connected' = 1
         /\ usb_host_status' = "USB_HOST_DEVICE_CONNECTED"
         /\ ev' = [op |-> "usb_host_process", seen |-> "connect"]
    ELSE IF elapsed /\ ~hcd_ready /\ device_connected # 0
    THEN /\ device_connected' = 0
         /\ usb_host_status' = "USB_HOST_READY"
         /\ ev' = [op |-> "usb_host_process", seen |-> "disconnect"]
    ELSE /\ UNCHANGED <<device_connected, usb_host_status>>
         /\ ev' = [op |-> "usb_host_process", seen |-> "nothing"]

-----------------------------------------------------------------------------
(* main.c : main and main_application_loop *)

\* A call is made by setting mret to "none"; the steps of the callee run
\* while it is "none", and the callee's return stores the returned value.
Called == mret = "none"

\* main lines 78-89: system_init and usb_host_init.  Either can fail, and
\* then error_handler never returns.
MainBoot ==
    /\ lpc = "boot"
    /\ \E started \in BOOLEAN :
          IF started
          THEN /\ usb_host_status' = "USB_HOST_READY"
               /\ lpc' = "ps2_init"
          ELSE /\ usb_host_status' \in {"USB_HOST_INIT", "USB_HOST_ERROR"}
               /\ lpc' = "error_handler"
    /\ mret' = "none"
    /\ ev' = NoCall
    /\ UNCHANGED <<qvars, tvars, fvars, device_connected, retry_count>>

\* main line 93: ps2_init()
MainPs2Init ==
    /\ lpc = "ps2_init"
    /\ Called
    /\ Ps2Init

\* main lines 93-99: the test of ps2_init's value
MainAfterPs2Init ==
    /\ lpc = "ps2_init"
    /\ ~Called
    /\ lpc' = IF mret = "PS2_OK" THEN "translator_init" ELSE "error_handler"
    /\ mret' = "none"
    /\ ev' = NoCall
    /\ UNCHANGED <<qvars, tvars, fvars, device_connected, usb_host_status,
                   retry_count>>

\* main line 99: scancode_translator_init()
MainTranslatorInit ==
    /\ lpc = "translator_init"
    /\ Called
    /\ TranslatorInit

\* main lines 99-108 and main_application_loop line 124: the loop is entered
MainEnterLoop ==
    /\ lpc = "translator_init"
    /\ ~Called
    /\ lpc' = IF mret = "TRANSLATOR_OK" THEN "poll" ELSE "error_handler"
    /\ mret' = "none"
    /\ ev' = NoCall
    /\ UNCHANGED <<qvars, tvars, fvars, device_connected, usb_host_status,
                   retry_count>>

\* main_application_loop lines 128-132: status_led_update and
\* system_status_check write the LED and app_state only; usb_host_process
MainPoll ==
    /\ lpc = "poll"
    /\ \E elapsed \in BOOLEAN, hcd_ready \in BOOLEAN :
          usb_host_process(elapsed, hcd_ready)
    /\ lpc' = "get_data"
    /\ mret' = "none"
    /\ UNCHANGED <<qvars, tvars, fvars, retry_count>>

\* line 135: keyboard_handler_get_data(&usb_keyboard_data)
MainGetData ==
    /\ lpc = "get_data"
    /\ Called
    /\ GetData

\* line 135: the test of get_data's value
MainAfterGetData ==
    /\ lpc = "get_data"
    /\ ~Called
    /\ lpc' = IF mret = "KEYBOARD_DATA_AVAILABLE" THEN "translate"
              ELSE "delay"
    /\ mret' = "none"
    /\ ev' = NoCall
    /\ UNCHANGED <<qvars, tvars, fvars, device_connected, usb_host_status,
                   retry_count>>

\* line 138: scancode_translator_usb_to_ps2(&usb_keyboard_data, &ps2_scancode)
MainTranslate ==
    /\ lpc = "translate"
    /\ Called
    /\ Translate(gd_out)

\* A main loop that sends whatever the translator returned
MainAfterTranslateAlways ==
    /\ lpc = "translate"
    /\ ~Called
    /\ lpc' = "send"
    /\ mret' = "none"
    /\ ev' = NoCall
    /\ UNCHANGED <<qvars, tvars, fvars, device_connected, usb_host_status,
                   retry_count>>

\* line 138: the test of the translator's value
MainAfterTranslate ==
    /\ lpc = "translate"
    /\ ~Called
    /\ lpc' = IF mret = "TRANSLATOR_OK" THEN "send" ELSE "delay"
    /\ mret' = "none"
    /\ ev' = NoCall
    /\ UNCHANGED <<qvars, tvars, fvars, device_connected, usb_host_status,
                   retry_count>>

\* line 141: ps2_send_scancode(&ps2_scancode)
MainSend ==
    /\ lpc = "send"
    /\ Called
    /\ \/ FramerIdle /\ SendScancodeEnter(ps2_scancode)
       \/ SendScancodeLoop
       \/ SendScancodeByteReturn
       \/ SendBitData
       \/ SendBitClockLow
       \/ SendBitClockHigh

\* lines 141-146: the value of ps2_send_scancode is tested and dropped
MainAfterSend ==
    /\ lpc = "send"
    /\ ~Called
    /\ lpc' = "delay"
    /\ mret' = "none"
    /\ ev' = NoCall
    /\ UNCHANGED <<qvars, tvars, fvars, device_connected, usb_host_status,
                   retry_count>>

\* lines 149-150: HAL_Delay(MAIN_LOOP_DELAY_MS), then the next round
MainDelay ==
    /\ lpc = "delay"
    /\ lpc' = "poll"
    /\ ev' = NoCall
    /\ UNCHANGED <<qvars, tvars, fvars, device_connected, usb_host_status,
                   retry_count, mret>>

\* One step of the main context
Main ==
    \/ MainBoot
    \/ MainPs2Init
    \/ MainAfterPs2Init
    \/ MainTranslatorInit
    \/ MainEnterLoop
    \/ MainPoll
    \/ MainGetData
    \/ MainAfterGetData
    \/ MainTranslate
    \/ MainAfterTranslate
    \/ MainSend
    \/ MainAfterSend
    \/ MainDelay

-----------------------------------------------------------------------------
(* Specifications *)

\* The state after the static initialisers and before any call:
\*   keyboard_handler.c lines 27-31 (keyboard_handler_init sets the same
\*   values), scancode_translator.c lines 32-33, ps2_init.c line 26.
\* The lines are high before the pins are configured (pull-ups of the bus).
\* The caller's ps2_scancode (main.c line 122) is an automatic object without
\* initialiser: it starts with one of the given contents.
InitWith(stack_scancodes) ==
    /\ keyboard_buffer = [i \in 0..(KEYBOARD_BUFFER_SIZE - 1) |-> ZeroKeyboardData]
    /\ buffer_head = 0
    /\ buffer_tail = 0
    /\ buffer_count = 0
    /\ last_keyboard_state = ZeroKeyboardData
    /\ mpc = "idle"
    /\ reg = 0
    /\ gd_out = ZeroKeyboardData
    /\ nsent = 0
    /\ nclear = 0
    /\ pending = <<>>
    /\ live = {}
    /\ overwritten = FALSE
    /\ primask = 0
    /\ primask_entry = 0
    /\ translator_status = "TRANSLATOR_INIT"
    /\ last_usb_state = ZeroKeyboardData
    /\ ntrans = 0
    /\ ps2_scancode \in stack_scancodes
    /\ ps2_status = "PS2_INIT"
    /\ ps2_clk = 1
    /\ ps2_data = 1
    /\ sb_data = 0
    /\ sb_parity = 0
    /\ sb_bit = 0
    /\ sb_pc = "idle"
    /\ sb_ret = "none"
    /\ sb_call = [direct |-> TRUE, status |-> "PS2_INIT"]
    /\ wire = <<>>
    /\ fpc = "idle"
    /\ ss_code = [data |-> <<0, 0, 0, 0>>, length |-> 0]
    /\ ss_i = 0
    /\ bus = <<>>
    /\ ps2_timer_active = 0
    /\ sent_down = {}
    /\ device_connected = 0
    /\ usb_host_status = "USB_HOST_INIT"
    /\ retry_count = 0
    /\ lpc = "boot"
    /\ mret = "none"
    /\ ev = NoCall

\* Contents of the uninitialised ps2_scancode
StackScanCodes ==
    {[data |-> <<0, 0, 0, 0>>, length |-> 0],
     [data |-> <<170, 187, 204, 221>>, length |-> 3]}

\* The content the parts that never read ps2_scancode are run with
StackZero == {[data |-> <<0, 0, 0, 0>>, length |-> 0]}

\* Producer interrupt against the consumer.
NextFifo ==
    \/ ReportArrives
    \/ GetData

SpecFifo ==
    InitWith(StackZero)
    /\ [][NextFifo]_vars

\* Producer interrupt against the consumer and clear_buffer.
QueueReportArrives ==
    /\ nsent < MaxQueueReports
    /\ ReportArrives

NextQueue ==
    \/ QueueReportArrives
    \/ GetData
    \/ ClearBuffer

SpecQueue ==
    InitWith(StackZero)
    /\ [][NextQueue]_vars

\* Arbitrary reports of CaptureReports, a few of them.
CaptureReportArrives ==
    /\ nsent < MaxCaptureReports
    /\ \E report \in CaptureReports :
          /\ ProcessReport(report)
          /\ nsent' = nsent + 1

NextCapture ==
    \/ CaptureReportArrives
    \/ GetData

SpecCapture ==
    InitWith(StackZero)
    /\ [][NextCapture]_vars

\* The translator called with snapshots of key changes only.
TranslateKeys ==
    /\ ntrans < MaxKeyTranslations
    /\ \E usb_data \in KeyInputs : Translate(usb_data)

NextKeys ==
    \/ TranslatorInit
    \/ TranslateKeys

SpecKeys ==
    InitWith(StackZero)
    /\ [][NextKeys]_vars

\* The translator called with snapshots that hold unmapped keys.
TranslateUnmapped == \E usb_data \in UnmappedInputs : Translate(usb_data)

NextUnmapped ==
    \/ TranslatorInit
    \/ TranslateUnmapped

SpecUnmapped ==
    InitWith(StackZero)
    /\ [][NextUnmapped]_vars

\* The translator called with snapshots of modifier and key changes.
TranslateAny == \E usb_data \in TransInputs : Translate(usb_data)

NextTrans ==
    \/ TranslatorInit
    \/ TranslateAny
    \/ TranslatorReset

SpecTrans ==
    InitWith(StackScanCodes)
    /\ [][NextTrans]_vars

\* ps2_init and ps2_send_byte with every byte value.
NextFramer ==
    \/ Ps2Init
    \/ SendByte

SpecFramer ==
    InitWith(StackZero)
    /\ [][NextFramer]_vars

\* The report parser alone.
NextParse == ParseReport

SpecParse ==
    InitWith(StackZero)
    /\ [][NextParse]_vars

\* The whole program: main and its loop, the report interrupt and the USB
\* connect and disconnect interrupts.
MainReportArrives ==
    /\ nsent < MaxMainReports
    /\ ReportArrives

NextMain ==
    \/ Main
    \/ MainReportArrives
    \/ HcdConnectCallback
    \/ HcdDisconnectCallback

SpecMain ==
    InitWith(StackScanCodes)
    /\ [][NextMain]_vars

\* The whole program with a main context that keeps running: main is the
\* only code of the thread context, so it takes its next step whenever no
\* interrupt handler runs.
SpecMainFair ==
    InitWith(StackScanCodes)
    /\ [][NextMain]_vars
    /\ WF_vars(Main)

\* The program with a call of keyboard_handler_clear_buffer at the end of a
\* round of the loop: the function has no caller under src/, and a caller in
\* the thread context runs it between two other operations.
OpsClearBuffer ==
    /\ lpc = "delay"
    /\ ClearBuffer

OpsDelay ==
    /\ mpc = "idle"
    /\ MainDelay

Thread ==
    \/ MainBoot
    \/ MainPs2Init
    \/ MainAfterPs2Init
    \/ MainTranslatorInit
    \/ MainEnterLoop
    \/ MainPoll
    \/ MainGetData
    \/ MainAfterGetData
    \/ MainTranslate
    \/ MainAfterTranslate
    \/ MainSend
    \/ MainAfterSend
    \/ OpsClearBuffer
    \/ OpsDelay

NextOps ==
    \/ Thread
    \/ MainReportArrives

SpecOps ==
    InitWith(StackZero)
    /\ [][NextOps]_vars

\* The program with the SysTick and the bit-timer interrupts at any point.
NextTicks ==
    \/ Main
    \/ MainReportArrives
    \/ HalIncTick
    \/ KeyboardHandlerTick
    \/ Ps2Tick
    \/ Ps2TimerCallback

SpecTicks ==
    InitWith(StackZero)
    /\ [][NextTicks]_vars

\* The program with reports that make translate return sequences of every
\* length, and the functions of ps2_protocol.c applied to their inputs.
LengthReports ==
    { <<0, 0, 0, 0, 0, 0, 0, 0>>,
      <<0, 0, 4, 0, 0, 0, 0, 0>>,
      <<0, 0, 79, 0, 0, 0, 0, 0>>,
      <<23, 0, 4, 0, 0, 0, 0, 0>> }

LengthReportArrives ==
    /\ nsent < MaxMainReports
    /\ \E report \in LengthReports :
          /\ ProcessReport(report)
          /\ nsent' = nsent + 1

NextLengths ==
    \/ Main
    \/ LengthReportArrives
    \/ ProtocolProbe

SpecLengths ==
    InitWith(StackScanCodes)
    /\ [][NextLengths]_vars

\* The program with reports of keys pressed and released together.
ChordReports ==
    { <<0, 0, 0, 0, 0, 0, 0, 0>>,
      <<0, 0, 4, 0, 0, 0, 0, 0>>,
      <<0, 0, 4, 5, 0, 0, 0, 0>>,
      <<2, 0, 4, 0, 0, 0, 0, 0>> }

ChordReportArrives ==
    /\ nsent < MaxMainReports
    /\ \E report \in ChordReports :
          /\ ProcessReport(report)
          /\ nsent' = nsent + 1

NextChords ==
    \/ Main
    \/ ChordReportArrives

SpecChords ==
    InitWith(StackZero)
    /\ [][NextChords]_vars

\* ps2_init, ps2_send_scancode and ps2_send_byte in the main context;
\* ps2_tick, ps2_timer_callback and a rejected ps2_send_scancode in
\* interrupt handlers.
NextSend ==
    \/ Ps2Init
    \/ SendScancode
    \/ SendByteProbe
    \/ SendScancodeFromInterrupt
    \/ Ps2Tick
    \/ Ps2TimerCallback

SpecSend ==
    InitWith(StackZero)
    /\ [][NextSend]_vars

-----------------------------------------------------------------------------
(* Claims about the capture queue *)

\* Structural equality of two snapshots: modifiers, key count and the keys
\* at every position below the count.
SameSnapshot(a, b) ==
    /\ a.modifier = b.modifier
    /\ a.key_count = b.key_count
    /\ \A i \in 1..a.key_count : a.keys[i] = b.keys[i]

\* C2: get_data hands out exactly the enqueued snapshots, in order, each
\* once, and answers "no data" only when none is left, also when the
\* producer interrupt runs between the steps of get_data.
C2_FifoExact ==
    /\ (ev.op = "get_data" /\ ev.ret = "KEYBOARD_DATA_AVAILABLE")
          => (ev.copied /\ ev.expected = ev.data)
    /\ (ev.op = "get_data" /\ ev.ret = "KEYBOARD_NO_DATA") => ev.left = 0
    /\ (mpc = "idle" => buffer_count = Len(pending))

C4_CountBoundedNoOverwrite ==
    /\ buffer_count \in 0..KEYBOARD_BUFFER_SIZE
    /\ ~overwritten

\* C5: with a non-full queue, a report whose snapshot differs from the last
\* captured one (modifiers, key count, or the key at some position) enqueues
\* exactly that snapshot and succeeds; an equal one enqueues nothing and
\* succeeds.
C5_EnqueueIffChanged ==
    [][ (ev'.op = "process_report" /\ buffer_count < KEYBOARD_BUFFER_SIZE)
        => LET kd == keyboard_parse_hid_report(ev'.report) IN
           /\ ev'.ret = "KEYBOARD_HANDLER_OK"
           /\ IF SameSnapshot(kd, last_keyboard_state)
              THEN UNCHANGED <<keyboard_buffer, buffer_head, buffer_tail,
                               buffer_count, last_keyboard_state, pending>>
              ELSE /\ keyboard_buffer' =
                         [keyboard_buffer EXCEPT ![buffer_head] = kd]
                   /\ buffer_head' = (buffer_head + 1) % KEYBOARD_BUFFER_SIZE
                   /\ buffer_count' = buffer_count + 1
                   /\ buffer_tail' = buffer_tail
                   /\ last_keyboard_state' = kd
                   /\ pending' = Append(pending, kd) ]_vars

\* Two snapshots with the same keys in another order were both enqueued,
\* and a report equivalent to the last captured state was then dropped.
C5_Witness ==
    /\ ev.op = "process_report"
    /\ ev.ret = "KEYBOARD_HANDLER_OK"
    /\ Len(pending) = 2
    /\ pending[1].keys = <<4, 5, 0, 0, 0, 0>>
    /\ pending[2].keys = <<5, 4, 0, 0, 0, 0>>
    /\ nsent = 3

-----------------------------------------------------------------------------
(* Claims about the translator *)

\* The keys a snapshot holds
KeysOf(kd) == {kd.keys[i] : i \in 1..kd.key_count}

\* The key set now is the key set before and the key k, new in it
OnlyAdds(before, now, k) == k \notin before /\ now = before \cup {k}

\* The key set now is the key set before without the key k
OnlyRemoves(before, now, k) == k \in before /\ now = before \ {k}

\* A call of translate made while the translator is ready
ReadyTranslateStep == ev'.op = "translate" /\ translator_status = "TRANSLATOR_READY"

C7_MakeThenBreak ==
    [][ (ReadyTranslateStep /\ ev'.usb.modifier = last_usb_state.modifier) =>
        LET before == KeysOf(last_usb_state)
            now == KeysOf(ev'.usb)
            out == ScanCodeBytes(ps2_scancode')
        IN
        /\ \A i \in 1..(Len(key_mapping_table) - 1) :
              LET k == key_mapping_table[i][1]
                  c == key_mapping_table[i][2]
                  x == key_mapping_table[i][3] # 0
              IN  /\ OnlyAdds(before, now, k)
                        => /\ ev'.ret = "TRANSLATOR_OK"
                           /\ out = IF x THEN <<224, c>> ELSE <<c>>
                  /\ OnlyRemoves(before, now, k)
                        => /\ ev'.ret = "TRANSLATOR_OK"
                           /\ out = IF x THEN <<224, 240, c>> ELSE <<240, c>>
        /\ OnlyAdds(before, now, 4) => out = <<28>>
        /\ OnlyRemoves(before, now, 4) => out = <<240, 28>> ]_vars

\* Delete, an extended key, was pressed and has now been released.
C7_Witness ==
    /\ ev.op = "translate"
    /\ ev.ret = "TRANSLATOR_OK"
    /\ ev.usb = Snapshot(0, <<>>)
    /\ last_usb_state = Snapshot(0, <<>>)
    /\ ntrans = 2
    /\ ScanCodeBytes(ps2_scancode) = <<224, 240, 113>>

\* The six modifiers of the claim: <<bit, PS/2 code, extended>>
C8_Modifiers ==
    { <<1, 20, FALSE>>, <<2, 18, FALSE>>, <<4, 17, FALSE>>,
      <<32, 89, FALSE>>, <<16, 20, TRUE>>, <<64, 17, TRUE>> }

\* usb is last with the one modifier bit toggled
OnlyToggles(last, usb, bit) ==
    /\ usb.keys = last.keys
    /\ usb.key_count = last.key_count
    /\ \A b \in {1, 2, 4, 8, 16, 32, 64, 128} :
          (BitSet(usb.modifier, b) # BitSet(last.modifier, b)) <=> (b = bit)

\* C8: a snapshot that differs from the last state in exactly one of the six
\* modifier bits returns that modifier's make code when the bit is now set
\* and its break code when it is now clear, with the 0xE0 prefix for
\* right-ctrl and right-alt.
C8_SingleModifier ==
    [][ ReadyTranslateStep =>
        \A m \in C8_Modifiers :
           OnlyToggles(last_usb_state, ev'.usb, m[1])
              => /\ ev'.ret = "TRANSLATOR_OK"
                 /\ ScanCodeBytes(ps2_scancode') =
                       IF BitSet(ev'.usb.modifier, m[1])
                       THEN IF m[3] THEN <<224, m[2]>> ELSE <<m[2]>>
                       ELSE IF m[3] THEN <<224, 240, m[2]>>
                                    ELSE <<240, m[2]>> ]_vars

\* Right-alt has been pressed and is now released while a key is held.
C8_Witness ==
    /\ ev.op = "translate"
    /\ ev.ret = "TRANSLATOR_OK"
    /\ ev.usb = Snapshot(0, <<4>>)
    /\ last_usb_state = Snapshot(0, <<4>>)
    /\ ScanCodeBytes(ps2_scancode) = <<224, 240, 17>>

\* The number of events the diff between last and usb generates: one per
\* changed bit of the six modifiers, one per mapped key of last missing
\* in usb, one per mapped key of usb missing in last.
DiffEventCount(last, usb) ==
    Cardinality({m \in C8_Modifiers :
                    BitSet(last.modifier, m[1]) # BitSet(usb.modifier, m[1])})
    + Cardinality({i \in 1..last.key_count :
                      last.keys[i] \notin KeysOf(usb)
                      /\ last.keys[i] \in MappedKeys})
    + Cardinality({i \in 1..usb.key_count :
                      usb.keys[i] \notin KeysOf(last)
                      /\ usb.keys[i] \in MappedKeys})

\* C9: translate fails exactly when the diff generates more than 8 events.
C9_OverflowAboveEight ==
    [][ ReadyTranslateStep =>
        (ev'.ret = "TRANSLATOR_ERROR"
            <=> DiffEventCount(last_usb_state, ev'.usb) > 8) ]_vars

-----------------------------------------------------------------------------
(* Claims about the framer *)

\* The number of 1s among the first n bits of a sequence
RECURSIVE Ones(_, _)
Ones(bits, n) == IF n = 0 THEN 0 ELSE bits[n] + Ones(bits, n - 1)

\* C1: ps2_send_byte(b) puts exactly 11 bits on the data line: start 0, the
\* 8 bits of b least-significant first, a parity bit that makes the number
\* of 1s among data and parity odd, stop 1.
C1_FrameOfByte ==
    ev.op = "send_byte" =>
        /\ ev.ret = "PS2_OK"
        /\ Len(ev.bits) = 11
        /\ ev.bits[1] = 0
        /\ \A i \in 0..7 : ev.bits[i + 2] = (ev.data \div (2 ^ i)) % 2
        /\ ev.bits[10] \in {0, 1}
        /\ Ones(SubSeq(ev.bits, 2, 10), 9) % 2 = 1
        /\ ev.bits[11] = 1

\* After ps2_init, 0xFF has been sent: eight 1s, so the parity bit is 1.
C1_Witness ==
    /\ ev.op = "send_byte"
    /\ ev.data = 255
    /\ ev.bits = <<0, 1, 1, 1, 1, 1, 1, 1, 1, 1, 1>>
    /\ ps2_status = "PS2_READY"

\* The frame of one byte: start 0, the data bits least-significant first,
\* odd parity, stop 1
FrameOf(b) ==
    LET bits == [i \in 1..8 |-> (b \div (2 ^ (i - 1))) % 2]
    IN  <<0>> \o bits \o <<(Ones(bits, 8) + 1) % 2>> \o <<1>>

\* A completed ps2_send_scancode that was called on a ready framer with a
\* sequence of 1 to 4 bytes
ValidSendReturn ==
    /\ ev.op = "send_scancode"
    /\ ev.status = "PS2_READY"
    /\ ev.code.length \in 1..PS2_MAX_SCANCODE_LENGTH

\* C11: ps2_send_scancode on a ready framer puts data[0..length-1] on the bus
\* in order, each as one complete frame, and no other byte; when it returns
\* failure the frames sent are a proper prefix of the sequence.
C11_BytesInOrder ==
    ValidSendReturn =>
        /\ Len(ev.frames) <= ev.code.length
        /\ \A i \in 1..Len(ev.frames) :
               /\ ev.frames[i].data = ev.code.data[i]
               /\ ev.frames[i].bits = FrameOf(ev.code.data[i])
        /\ ev.ret = "PS2_OK" => Len(ev.frames) = ev.code.length
        /\ ev.ret # "PS2_OK" => Len(ev.frames) < ev.code.length

\* E0 F0 71 has been sent as three frames.
C11_Witness ==
    /\ ValidSendReturn
    /\ ev.ret = "PS2_OK"
    /\ ev.code.length = 3
    /\ Len(ev.frames) = 3
    /\ ev.frames[1].data = 224
    /\ ev.frames[2].data = 240
    /\ ev.frames[3].data = 113

\* C12: a send called while the framer is not Ready (ps2_send_scancode, or
\* ps2_send_byte called by itself) returns failure and puts nothing on the
\* clock and data lines.
C12_NotReadyRejects ==
    /\ (ev.op = "send_scancode" /\ ev.status # "PS2_READY")
          => (ev.ret # "PS2_OK" /\ ev.frames = <<>>)
    /\ (ev.op = "send_byte" /\ ev.direct /\ ev.status # "PS2_READY")
          => (ev.ret # "PS2_OK" /\ ev.bits = <<>>)

\* C13: ps2_send_scancode called on a ready framer with a sequence of length
\* 0 or of length above 4 returns failure and puts nothing on the bus.
C13_InvalidLengthRejected ==
    (/\ ev.op = "send_scancode"
     /\ ev.status = "PS2_READY"
     /\ ev.code.length \notin 1..PS2_MAX_SCANCODE_LENGTH)
        => (ev.ret # "PS2_OK" /\ ev.frames = <<>>)

\* The step is made by ps2_init
InitStep == fpc' = "init" \/ fpc = "init"

IsKeyCode(b) == b # 0 /\ b # 1

\* C16: the parsed snapshot of an 8-byte report has byte 0 as modifiers and,
\* as key list, the bytes 2..7 that are neither 0x00 nor 0x01, in report
\* order with duplicates kept; the key count is their number; byte 1 has no
\* influence.
C16_ParseExact ==
    ev.op = "parse" =>
        LET listed == SelectSeq(SubSeq(ev.report, 3, 8), IsKeyCode) IN
        /\ ev.data.modifier = ev.report[1]
        /\ ev.data.key_count = Len(listed)
        /\ ev.data.key_count \in 0..6
        /\ \A i \in 1..Len(listed) : ev.data.keys[i] = listed[i]
        /\ \A r \in {0, 1, 170, 255} :
               keyboard_parse_hid_report([ev.report EXCEPT ![2] = r]) = ev.data

\* A report with a rollover code, a gap and a duplicate: 04 01 05 00 05 04
\* with the reserved byte set parses to the keys 04 05 05 04.
C16_Witness ==
    /\ ev.op = "parse"
    /\ ev.report = <<2, 170, 4, 1, 5, 0, 5, 4>>
    /\ ev.data.key_count = 4
    /\ ev.data.keys = <<4, 5, 5, 4, 0, 0>>
    /\ ev.data.modifier = 2

\* The main context is between two writes of one cursor update: the tail is
\* advanced and the count not yet stored (get_data), or the head is zeroed
\* and the tail or the count not yet (clear_buffer).
PartlyUpdated == mpc \in {"gd_load", "gd_store", "cl_tail", "cl_count"}

\* C17: the producer never runs on a partly updated cursor state: the report
\* interrupt is not taken between the cursor writes of get_data or of
\* clear_buffer.
C17_ProducerSeesWholeUpdates ==
    ev.op = "process_report" => ~PartlyUpdated

\* keyboard_handler_clear_buffer has returned at least once and is not running
AfterClear == nclear >= 1 /\ mpc \notin {"cl_tail", "cl_count"}

\* C18: after clear_buffer the queue is empty; get_data answers "no data"
\* while nothing was enqueued since, never hands out a snapshot queued before
\* the clear, and hands out the snapshots enqueued since in FIFO order.
C18_ClearEmpties ==
    AfterClear =>
        /\ ev.op = "clear_buffer" => keyboard_buffer_is_empty
        /\ (mpc = "idle" /\ pending = <<>>) => keyboard_buffer_is_empty
        /\ (ev.op = "get_data" /\ ev.ret = "KEYBOARD_NO_DATA") => ev.left = 0
        /\ (ev.op = "get_data" /\ ev.ret = "KEYBOARD_DATA_AVAILABLE")
              => (ev.copied /\ ev.expected = ev.data)

\* The modifiers that generate events, in generation order:
\* <<bit, PS/2 code, extended>>
C19_ModifierOrder ==
    << <<1, 20, FALSE>>, <<2, 18, FALSE>>, <<4, 17, FALSE>>,
       <<32, 89, FALSE>>, <<16, 20, TRUE>>, <<64, 17, TRUE>> >>

\* The bytes of a make or break event of PS/2 code c
EventBytes(c, extended, make) ==
    IF make THEN IF extended THEN <<224, c>> ELSE <<c>>
    ELSE IF extended THEN <<224, 240, c>> ELSE <<240, c>>

\* The event of key k: k is mapped
KeyEventBytes(k, make) ==
    LET i == CHOOSE j \in 1..(Len(key_mapping_table) - 1) :
                 /\ key_mapping_table[j][1] = k
                 /\ \A h \in 1..(j - 1) : key_mapping_table[h][1] # k
    IN  EventBytes(key_mapping_table[i][2], key_mapping_table[i][3] # 0, make)

\* The events of the keys of snapshot a that are mapped and missing in b, in
\* the order of a's key list, from position i on
RECURSIVE KeyEventsFrom(_, _, _, _)
KeyEventsFrom(i, a, b, make) ==
    IF i > a.key_count THEN <<>>
    ELSE (IF a.keys[i] \notin KeysOf(b) /\ a.keys[i] \in MappedKeys
          THEN <<KeyEventBytes(a.keys[i], make)>> ELSE <<>>)
         \o KeyEventsFrom(i + 1, a, b, make)

\* The events of a call in generation order: modifiers, breaks, makes
GeneratedEvents(last, usb) ==
    LET changed == SelectSeq(C19_ModifierOrder,
                       LAMBDA m : BitSet(last.modifier, m[1])
                                  # BitSet(usb.modifier, m[1]))
    IN  [i \in 1..Len(changed) |->
            EventBytes(changed[i][2], changed[i][3],
                       BitSet(usb.modifier, changed[i][1]))]
        \o KeyEventsFrom(1, last, usb, FALSE)
        \o KeyEventsFrom(1, usb, last, TRUE)

C20_EveryModifierBit ==
    [][ ReadyTranslateStep =>
        \A bit \in {1, 2, 4, 8, 16, 32, 64, 128} :
           OnlyToggles(last_usb_state, ev'.usb, bit)
              => /\ ev'.ret = "TRANSLATOR_OK"
                 /\ ps2_scancode'.length > 0 ]_vars

OnlyUnmappedDiffer(last, usb) ==
    /\ last.modifier = usb.modifier
    /\ KeysOf(last) # KeysOf(usb)
    /\ \A k \in (KeysOf(last) \ KeysOf(usb)) \cup (KeysOf(usb) \ KeysOf(last)) :
          k \notin MappedKeys

\* C22: a pressed or released key without an entry in the key map generates
\* no event and no error: the events stored are those of the mapped keys
\* only, a call with at most 7 of them succeeds however many unmapped keys
\* changed, and a diff of unmapped keys only succeeds with the empty
\* sequence and updates the last state.
C22_UnmappedSkipped ==
    [][ ReadyTranslateStep =>
        /\ Len(ev'.stores) <= DiffEventCount(last_usb_state, ev'.usb)
        /\ DiffEventCount(last_usb_state, ev'.usb) <= 7
              => /\ ev'.ret = "TRANSLATOR_OK"
                 /\ Len(ev'.stores) = DiffEventCount(last_usb_state, ev'.usb)
        /\ OnlyUnmappedDiffer(last_usb_state, ev'.usb)
              => /\ ev'.ret = "TRANSLATOR_OK"
                 /\ ev'.stores = <<>>
                 /\ ps2_scancode'.length = 0
                 /\ last_usb_state' = ev'.usb ]_vars

\* Six mapped keys were held and are replaced by five unmapped keys and the
\* key 0x0A: twelve keys changed, seven events were generated, the call
\* succeeded with the break of key 0x04.
C22_Witness ==
    /\ ev.op = "translate"
    /\ ev.ret = "TRANSLATOR_OK"
    /\ ev.usb = Snapshot(0, <<101, 102, 50, 100, 103, 10>>)
    /\ last_usb_state = ev.usb
    /\ Len(ev.stores) = 7
    /\ ScanCodeBytes(ps2_scancode) = <<240, 28>>

\* C23: inside a frame the data line changes only while the clock is high
\* and stays high in that step; at each falling clock edge the data line
\* holds the bit of the frame that is due; between two writes of the data
\* line the clock goes low and high once; a byte makes exactly 11 low pulses.
C23_BitTiming ==
    [][ /\ ps2_data' # ps2_data => (ps2_clk = 1 /\ ps2_clk' = 1)
        /\ (ps2_clk = 1 /\ ps2_clk' = 0) =>
              /\ ps2_data' = ps2_data
              /\ ps2_data = FrameOf(sb_data)[sb_bit + 1]
              /\ Len(wire') = sb_bit + 1
        /\ sb_pc = "set_data" => (sb_pc' = "clk_low" /\ ps2_clk' = ps2_clk)
        /\ sb_pc = "clk_low" => (sb_pc' = "clk_high" /\ ps2_clk' = 0)
        /\ sb_pc = "clk_high" =>
              (sb_pc' \in {"set_data", "idle"} /\ ps2_clk = 0 /\ ps2_clk' = 1)
        /\ ev'.op = "send_byte" => Len(ev'.bits) = 11 ]_vars

\* The clock has just gone low for the parity bit of 0x1C: ten falling edges
\* so far, the data line holds 0.
C23_Witness ==
    /\ sb_pc = "clk_high"
    /\ sb_data = 28
    /\ sb_bit = 9
    /\ ps2_clk = 0
    /\ ps2_data = 0
    /\ wire = <<0, 0, 0, 1, 1, 1, 0, 0, 0, 0>>

\* C24: after scancode_translator_reset the last state is the all-released
\* snapshot; a translate of the all-released snapshot that follows returns
\* the empty sequence, and a translate of a snapshot that holds one mapped
\* key returns the make code of that key.
C24_ResetClearsLast ==
    [][ /\ ev'.op = "translator_reset" =>
              /\ last_usb_state' = Snapshot(0, <<>>)
              /\ translator_status' = "TRANSLATOR_READY"
        /\ (ev.op = "translator_reset" /\ ev'.op = "translate") =>
              /\ ev'.usb = Snapshot(0, <<>>)
                    => (ev'.ret = "TRANSLATOR_OK" /\ ps2_scancode'.length = 0)
              /\ \A k \in MappedKeys :
                    ev'.usb = Snapshot(0, <<k>>)
                       => /\ ev'.ret = "TRANSLATOR_OK"
                          /\ ScanCodeBytes(ps2_scancode') =
                                KeyEventBytes(k, TRUE) ]_vars

\* reset has run after a translate that returned the make code of left-ctrl,
\* that is on a last state with a modifier held.
C24_Witness ==
    /\ ev.op = "translator_reset"
    /\ ntrans = 1
    /\ ScanCodeBytes(ps2_scancode) = <<20>>
    /\ last_usb_state = Snapshot(0, <<>>)

-----------------------------------------------------------------------------
(* Connection changes *)

\* A connect or disconnect was the last thing handled: by one of the two
\* interrupt callbacks, or seen by usb_host_process in the main loop.
NotificationHandled ==
    \/ ev.op \in {"hcd_connect", "hcd_disconnect"}
    \/ ev.op = "usb_host_process" /\ ev.seen \in {"connect", "disconnect"}

\* C25: when a USB connect or disconnect notification has been handled, the
\* capture queue is empty and the translator's last state is all-released.
C25_NotificationClears ==
    NotificationHandled =>
        /\ buffer_count = 0
        /\ keyboard_buffer_is_empty
        /\ last_usb_state = Snapshot(0, <<>>)

-----------------------------------------------------------------------------
(* The main loop drains the queue *)

\* main has reached main_application_loop
InLoop == lpc \in {"poll", "get_data", "translate", "send", "delay"}

\* C26: with a main loop that keeps running, every snapshot process_report
\* enqueues is dequeued in the order of arrival, each once, the snapshot
\* dequeued is the one passed to translate, and no enqueued snapshot stays
\* in the queue for ever.
C26_EverySnapshotTranslated ==
    /\ [][ /\ (ev'.op = "get_data" /\ ev'.ret = "KEYBOARD_DATA_AVAILABLE")
                => (ev'.copied /\ ev'.expected = ev'.data)
           /\ ev'.op = "translate"
                => (lpc = "translate" /\ ev'.usb = gd_out) ]_vars
    /\ (InLoop /\ pending # <<>>) ~> (pending = <<>>)

-----------------------------------------------------------------------------
(* Termination *)

\* The loop of find_ps2_scancode stops for usb_key: some entry of the table
\* holds the key or is the end mark.
LookupEnds(usb_key) ==
    \E i \in 1..Len(key_mapping_table) :
        key_mapping_table[i][1] \in {0, usb_key}

\* The clock pulses of the frames a send put on the bus
RECURSIVE BitSlots(_)
BitSlots(frames) ==
    IF frames = <<>> THEN 0
    ELSE Len(Head(frames).bits) + BitSlots(Tail(frames))

\* Steps keyboard_handler_get_data or keyboard_handler_clear_buffer has
\* left at most before it returns
QueueStepsLeft(pc) ==
    CASE pc = "idle" -> 0
      [] pc = "gd_check" -> 5
      [] pc = "gd_copy" -> 4
      [] pc = "gd_tail" -> 3
      [] pc = "gd_load" -> 2
      [] pc = "gd_store" -> 1
      [] pc = "cl_tail" -> 2
      [] pc = "cl_count" -> 1

\* Steps ps2_send_byte has left: three for each bit not yet sent
ByteStepsLeft(pc, bit) ==
    CASE pc = "idle" -> 0
      [] pc = "set_data" -> 3 * (10 - bit) + 3
      [] pc = "clk_low" -> 3 * (10 - bit) + 2
      [] pc = "clk_high" -> 3 * (10 - bit) + 1

\* Steps ps2_send_scancode has left: 35 for each byte not yet started (the
\* call, 33 line changes, the return), and the last loop test
SendStepsLeft(pc, code, i, bytepc, bit) ==
    CASE pc = "loop" -> 35 * (code.length - i) + 1
      [] pc = "byte" -> 35 * (code.length - i - 1) + 2
                         + ByteStepsLeft(bytepc, bit)
      [] OTHER -> 0

\* C27: every operation can take its next step in every state it can be
\* in, whatever the other context does (process_report and get_data never
\* wait for space or data), every step of a started get_data, clear_buffer
\* or send brings its return nearer by a step, the key lookup ends for
\* every key code 0..255, and an accepted send of length n returns after
\* exactly 11*n clock pulses.
C27_OperationsTerminate ==
    /\ \A usb_key \in 0..255 :
          /\ LookupEnds(usb_key)
          /\ find_ps2_scancode(usb_key).found \in BOOLEAN
    /\ [](/\ \A report \in FifoReports : ENABLED ProcessReport(report)
          /\ mpc = "idle" => ENABLED GetDataEnter
          /\ mpc \in {"gd_check", "gd_copy", "gd_tail", "gd_load", "gd_store"}
                => ENABLED GetData
          /\ mpc \in {"cl_tail", "cl_count"} => ENABLED ClearBuffer
          /\ (lpc = "translate" /\ Called) => ENABLED Translate(gd_out)
          /\ (lpc = "send" /\ Called /\ FramerIdle)
                => ENABLED SendScancodeEnter(ps2_scancode)
          /\ fpc \in {"loop", "byte"} => ENABLED SendScancode)
    /\ [][ /\ (mpc # "idle" /\ mpc' # mpc)
                => QueueStepsLeft(mpc') < QueueStepsLeft(mpc)
           /\ (mpc # "idle" /\ mpc' = mpc)
                => ev'.op = "process_report"
           /\ (fpc \in {"loop", "byte"})
                => \/ ev'.op = "process_report" /\ fvars' = fvars
                   \/ SendStepsLeft(fpc', ss_code', ss_i', sb_pc', sb_bit')
                        = SendStepsLeft(fpc, ss_code, ss_i, sb_pc, sb_bit) - 1
           /\ (ev'.op = "send_scancode" /\ ev'.status = "PS2_READY")
                => /\ ev'.ret = "PS2_OK"
                   /\ Len(ev'.frames) = ev'.code.length
                   /\ BitSlots(ev'.frames) = 11 * ev'.code.length ]_vars

\* A send of two bytes has returned after 22 clock pulses, after a clear
\* and a dequeue that the report interrupt interleaved with.
C27_Witness ==
    /\ ev.op = "send_scancode"
    /\ ev.ret = "PS2_OK"
    /\ ev.code.length = 2
    /\ BitSlots(ev.frames) = 22
    /\ nclear > 0
    /\ nsent = MaxMainReports

-----------------------------------------------------------------------------
(* Ticks *)

TickOps ==
    {"HAL_IncTick", "keyboard_handler_tick", "ps2_tick", "ps2_timer_callback"}

\* C28: a tick notification or the bit-timer callback, at any point, leaves
\* the queue, the last captured snapshot, the translator's last state, the
\* framer status and both lines as they are, and takes no retry or timeout
\* action: every operation in progress stays where it is.
C28_TicksChangeNothing ==
    [][ ev'.op \in TickOps =>
           /\ UNCHANGED <<keyboard_buffer, buffer_head, buffer_tail,
                          buffer_count, last_keyboard_state>>
           /\ UNCHANGED <<last_usb_state, translator_status>>
           /\ UNCHANGED <<ps2_status, ps2_clk, ps2_data>>
           /\ UNCHANGED <<mpc, fpc, sb_pc, sb_bit, ss_i, lpc, mret>>
           /\ UNCHANGED <<retry_count, usb_host_status, device_connected>>
           /\ ps2_timer_active' = 0 ]_vars

\* The bit-timer callback ran while the clock line was low in the second
\* byte of a transmission, after two reports were captured.
C28_Witness ==
    /\ ev.op = "ps2_timer_callback"
    /\ ps2_status = "PS2_TRANSMITTING"
    /\ fpc = "byte"
    /\ ss_i = 1
    /\ sb_pc = "clk_high"
    /\ ps2_clk = 0
    /\ nsent = 2
    /\ last_usb_state # Snapshot(0, <<>>)

-----------------------------------------------------------------------------
(* Lengths of scan-code sequences *)

\* C29: a sequence translate returns on success has length 0..3, each
\* constructor builds a sequence of length 1..4, ps2_create_scancode and
\* ps2_validate_scancode accept exactly the lengths 1..4, and every sequence
\* the main loop hands to ps2_send_scancode has length at most 4.
C29_LengthsBounded ==
    [][ /\ (ev'.op = "translate" /\ ev'.ret = "TRANSLATOR_OK")
              => ps2_scancode'.length \in 0..3
        /\ ev'.op = "ps2_protocol"
              => /\ \A code \in {ev'.make, ev'.break, ev'.extended_make,
                                 ev'.extended_break} :
                        Len(code) \in 1..PS2_MAX_SCANCODE_LENGTH
                 /\ (ev'.created.ret = "PS2_PROTOCOL_OK")
                        <=> (ev'.length \in 1..PS2_MAX_SCANCODE_LENGTH)
                 /\ (ev'.created.ret = "PS2_PROTOCOL_OK")
                        => ev'.created.scancode.length = ev'.length
                 /\ ev'.valid <=> (ev'.length \in 1..PS2_MAX_SCANCODE_LENGTH)
        /\ (lpc = "send" /\ fpc' = "loop")
              => ss_code'.length <= PS2_MAX_SCANCODE_LENGTH
        /\ ev'.op = "send_scancode"
              => ev'.code.length <= PS2_MAX_SCANCODE_LENGTH ]_vars

\* The main loop has sent a sequence of three bytes that translate
\* returned: the release of an extended key.
C29_Witness ==
    /\ ev.op = "send_scancode"
    /\ ev.ret = "PS2_OK"
    /\ ScanCodeBytes(ev.code) = <<224, 240, 116>>
    /\ last_usb_state = Snapshot(0, <<>>)

-----------------------------------------------------------------------------
(* Where translate stores its events *)

\* C30: in every translate call the j-th event generated, counting from 0
\* with the modifier events first, is stored at index j of temp_scancodes,
\* and no event is stored at index 8 or above.
C30_EventStoredAtItsIndex ==
    [][ ev'.op = "translate" =>
           \A j \in 1..Len(ev'.stores) :
               /\ ev'.stores[j].index = j - 1
               /\ ev'.stores[j].index < MAX_TRANSLATION_BUFFER ]_vars

-----------------------------------------------------------------------------
(* Make and break codes on the bus *)

\* The key a sent sequence of bytes is the make code of, as a set
MakeOf(bytes) ==
    IF Len(bytes) = 1 /\ bytes[1] \notin {PS2_EXTENDED_CODE_PREFIX,
                                          PS2_BREAK_CODE_PREFIX}
    THEN {<<0, bytes[1]>>}
    ELSE IF Len(bytes) = 2 /\ bytes[1] = PS2_EXTENDED_CODE_PREFIX
    THEN {<<1, bytes[2]>>}
    ELSE {}

\* The key a sent sequence of bytes is the break code of, as a set
BreakOf(bytes) ==
    IF Len(bytes) = 2 /\ bytes[1] = PS2_BREAK_CODE_PREFIX
    THEN {<<0, bytes[2]>>}
    ELSE IF /\ Len(bytes) = 3
            /\ bytes[1] = PS2_EXTENDED_CODE_PREFIX
            /\ bytes[2] = PS2_BREAK_CODE_PREFIX
    THEN {<<1, bytes[3]>>}
    ELSE {}

\* C31: on the bus the codes of every key and modifier alternate make,
\* break, make, ...: the main loop sends a make code only for a key that is
\* not held as pressed, and a break code only for a key whose make code was
\* the last code sent for it.
C31_MakeBreakAlternate ==
    [][ (lpc = "send" /\ ev'.op = "send_scancode" /\ ev'.ret = "PS2_OK")
           => /\ MakeOf(BytesOf(ev'.frames)) \cap sent_down = {}
              /\ BreakOf(BytesOf(ev'.frames)) \subseteq sent_down ]_vars

-----------------------------------------------------------------------------
(* The translator follows the capture stage *)

\* The main loop is between two rounds: after the delay or before it
BetweenIterations == lpc \in {"delay", "poll"}

\* C32: whenever the queue is empty and the main loop is between two
\* rounds, the translator's last state is the last captured snapshot.
C32_TranslatorCaughtUp ==
    (keyboard_buffer_is_empty /\ BetweenIterations)
        => last_usb_state = last_keyboard_state

-----------------------------------------------------------------------------
(* Shape of the queue *)

\* C33: head and tail are below 16, and whenever no queue operation is in
\* the middle of its update, head is (tail + count) mod 16.
C33_HeadIsTailPlusCount ==
    /\ buffer_head \in 0..(KEYBOARD_BUFFER_SIZE - 1)
    /\ buffer_tail \in 0..(KEYBOARD_BUFFER_SIZE - 1)
    /\ mpc = "idle"
          => buffer_head = (buffer_tail + buffer_count) % KEYBOARD_BUFFER_SIZE

-----------------------------------------------------------------------------
(* The last captured snapshot *)

\* A step that enqueued a snapshot
Enqueued == Len(pending') = Len(pending) + 1

\* C34: the last captured snapshot is the all-released one at first and is
\* replaced exactly by each snapshot that is enqueued, which differs in
\* structure from the one enqueued before it; so it always is the snapshot
\* enqueued last, also when the report interrupt falls between the steps
\* of get_data.
C34_LastCapturedIsLastEnqueued ==
    /\ [](/\ nsent = 0 => last_keyboard_state = ZeroKeyboardData
          /\ pending # <<>> => last_keyboard_state = pending[Len(pending)]
          /\ \A i \in 1..(Len(pending) - 1) :
                 ~SameSnapshot(pending[i], pending[i + 1]))
    /\ [][ IF Enqueued
           THEN /\ ev'.op = "process_report"
                /\ last_keyboard_state' = keyboard_buffer'[buffer_head]
                /\ last_keyboard_state' = pending'[Len(pending')]
                /\ ~SameSnapshot(last_keyboard_state', last_keyboard_state)
           ELSE last_keyboard_state' = last_keyboard_state ]_vars

\* The third snapshot was enqueued while get_data was between the load and
\* the store of the count, and it is the last captured snapshot.
C34_Witness ==
    /\ mpc = "gd_store"
    /\ ev.op = "process_report"
    /\ Len(pending) = 3
    /\ last_keyboard_state = pending[3]
    /\ last_keyboard_state # pending[2]

\* C35: whenever the framer status is Ready, after ps2_init and between the
\* calls of ps2_send_scancode, the clock line and the data line are both
\* high; every completed frame leaves the data line at the stop bit 1 and
\* the clock line high.
C35_ReadyLinesHigh ==
    /\ ps2_status = "PS2_READY" => (ps2_clk = 1 /\ ps2_data = 1)
    /\ ev.op = "send_byte" => (ps2_clk = 1 /\ ps2_data = 1)
    /\ (ev.op = "send_scancode" /\ ev.ret = "PS2_OK")
          => (ps2_status = "PS2_READY" /\ ps2_clk = 1 /\ ps2_data = 1)

\* ps2_send_scancode returned after two frames whose last data bit is 0:
\* the status is Ready again.
C35_Witness ==
    /\ ev.op = "send_scancode"
    /\ ev.ret = "PS2_OK"
    /\ Len(ev.frames) = 2
    /\ ev.frames[2].bits[9] = 0
    /\ ps2_status = "PS2_READY"
    /\ ps2_clk = 1
    /\ ps2_data = 1

\* A step in which ps2_send_scancode accepts a sequence
TransmissionStarts ==
    ps2_status # "PS2_TRANSMITTING" /\ ps2_status' = "PS2_TRANSMITTING"

\* A step that changes the level of a bus line
LinesMove == ps2_clk' # ps2_clk \/ ps2_data' # ps2_data

\* The main loop stays at the call site it is at, with the returned value
\* kept, or goes on to one of the given places
StaysOrGoes(places) ==
    \/ lpc' = lpc /\ (~Called => mret' = mret)
    \/ lpc' \in places /\ ~Called

\* C36: for each snapshot the main loop dequeues it starts at most one
\* transmission: a transmission starts only in the call of line 141, which
\* is reached only from a translation that returned TRANSLATOR_OK, which is
\* reached only from a get_data that returned a snapshot, and each call site
\* is left after its one call.  The bus lines move only while a non-empty
\* sequence written by the translator is transmitted: nothing is put on the
\* bus when the translation fails or gives an empty sequence.
C36_OneTransmissionPerSnapshot ==
    [][ /\ TransmissionStarts
             => /\ lpc = "send" /\ Called
                /\ ss_code' = ps2_scancode
        /\ (lpc' = "send" /\ lpc # "send")
             => (lpc = "translate" /\ mret = "TRANSLATOR_OK")
        /\ (lpc' = "translate" /\ lpc # "translate")
             => (lpc = "get_data" /\ mret = "KEYBOARD_DATA_AVAILABLE")
        /\ lpc = "get_data" => StaysOrGoes({"translate", "delay"})
        /\ lpc = "translate" => StaysOrGoes({"send", "delay"})
        /\ lpc = "send" => StaysOrGoes({"delay"})
        /\ (lpc = "send" /\ ~Called) => ~TransmissionStarts
        /\ ev'.op \in {"get_data", "translate", "send_scancode"}
             => mret' = ev'.ret
        /\ (ev'.op = "translate" /\ ev'.ret # "TRANSLATOR_OK")
             => lpc' = "translate"
        /\ (lpc = "translate" /\ ~Called /\ mret # "TRANSLATOR_OK")
             => (lpc' = "translate" \/ lpc' = "delay")
        /\ LinesMove
             => /\ lpc = "send"
                /\ ps2_status = "PS2_TRANSMITTING"
                /\ ss_code = ps2_scancode
                /\ ss_code.length > 0
        /\ (ev'.op = "send_scancode" /\ ev'.code.length = 0)
             => (ev'.frames = <<>> /\ wire' = wire)
      ]_vars

\* A dequeued snapshot gave an empty sequence: the translator returned
\* TRANSLATOR_OK, ps2_send_scancode was called once and returned without a
\* frame.
C36_Witness ==
    /\ ev.op = "send_scancode"
    /\ ev.ret = "PS2_OK"
    /\ ev.code.length = 0
    /\ ev.frames = <<>>
    /\ lpc = "send"
    /\ ntrans = 2
    /\ ps2_clk = 1
    /\ ps2_data = 1

-----------------------------------------------------------------------------
(* scancode_translator_usb_to_ps2 with every combination of arguments *)

\* line 114: usb_data == NULL || ps2_scancode == NULL
ArgumentMissing(usb_null, out_null) == usb_null \/ out_null

\* scancode_translator_usb_to_ps2 called with pointers that may be NULL:
\* lines 114-116 return TRANSLATOR_ERROR, else the function goes on
TranslateWith(usb_data, usb_null, out_null) ==
    IF ArgumentMissing(usb_null, out_null)
    THEN /\ ntrans < MaxTranslations
         /\ ntrans' = ntrans + 1
         /\ ev' = [op |-> "translate", ret |-> "TRANSLATOR_ERROR",
                   stores |-> <<>>,
                   missing |-> {a \in {"usb_data", "ps2_scancode"} :
                                   \/ a = "usb_data" /\ usb_null
                                   \/ a = "ps2_scancode" /\ out_null}]
         /\ mret' = "TRANSLATOR_ERROR"
         /\ UNCHANGED <<translator_status, last_usb_state, ps2_scancode,
                        qvars, fvars, ovars>>
    ELSE Translate(usb_data)

\* The snapshots of the calls with arguments that may be missing
ArgumentInputs ==
    {Snapshot(0, <<4>>), Snapshot(2, <<>>), Snapshot(0, <<4, 5>>),
     Snapshot(0, <<>>)}

TranslateArguments ==
    \E usb_data \in ArgumentInputs, usb_null \in BOOLEAN, out_null \in BOOLEAN :
        TranslateWith(usb_data, usb_null, out_null)

NextArguments ==
    \/ TranslatorInit
    \/ TranslatorReset
    \/ TranslateArguments

SpecArguments ==
    InitWith(StackScanCodes)
    /\ [][NextArguments]_vars

\* C37: a translation called before the translator was initialized or
\* reset, or with a missing input or output argument, returns
\* TRANSLATOR_ERROR, leaves the last translated state and the translator
\* status as they were and does not write the output.
C37_NotReadyOrMissingFails ==
    [][ (/\ ev'.op = "translate"
         /\ \/ translator_status # "TRANSLATOR_READY"
            \/ "missing" \in DOMAIN ev')
          => /\ ev'.ret = "TRANSLATOR_ERROR"
             /\ mret' = "TRANSLATOR_ERROR"
             /\ last_usb_state' = last_usb_state
             /\ ps2_scancode' = ps2_scancode
             /\ translator_status' = translator_status ]_vars

\* After a key press was translated, a call without the output argument
\* returned TRANSLATOR_ERROR: the state of the key press and the sequence
\* written before are still there.
C37_Witness ==
    /\ ev.op = "translate"
    /\ "missing" \in DOMAIN ev
    /\ ev.missing = {"ps2_scancode"}
    /\ ev.ret = "TRANSLATOR_ERROR"
    /\ translator_status = "TRANSLATOR_READY"
    /\ last_usb_state = Snapshot(0, <<4>>)
    /\ ps2_scancode.length = 1
    /\ ps2_scancode.data[1] = 28

-----------------------------------------------------------------------------
(* keyboard_handler_process_report with every combination of arguments *)

\* A handler that tests the pointer only
ReportRejectedNullOnly(report_null, report_size) == report_null

\* keyboard_handler.c line 76: report == NULL || report_size != KEYBOARD_REPORT_SIZE
ReportRejected(report_null, report_size) ==
    report_null \/ report_size # KEYBOARD_REPORT_SIZE

\* keyboard_handler_process_report(report, report_size), called from the
\* interrupt handler: report holds the bytes behind the pointer, of which
\* the parser reads the first eight
ProcessReportWith(report, report_null, report_size) ==
    /\ IrqDeliverable
    /\ IF ReportRejected(report_null, report_size)
       THEN /\ ev' = [op |-> "process_report", report |-> report,
                      ret |-> "KEYBOARD_HANDLER_ERROR"]
            /\ UNCHANGED <<keyboard_buffer, buffer_head, buffer_count,
                           last_keyboard_state, pending, live, overwritten,
                           primask, primask_entry>>
       ELSE ProcessReportEffect(report)
    /\ UNCHANGED <<buffer_tail, mpc, reg, gd_out, nclear, tvars, fvars,
                   ovars, mret>>

\* The bytes behind the pointer and the sizes passed with them
SizedReports ==
    { <<0, 0, 4, 0, 0, 0, 0, 0>>,
      <<2, 0, 4, 5, 0, 0, 0, 0>>,
      <<0, 0, 0, 0, 0, 0, 0, 0>> }

ReportSizes == {0, 7, 8, 9}

SizedReportArrives ==
    /\ nsent < MaxCaptureReports
    /\ nsent' = nsent + 1
    /\ \E report \in SizedReports, report_null \in BOOLEAN,
          report_size \in ReportSizes :
             ProcessReportWith(report, report_null, report_size)

NextSizes ==
    \/ SizedReportArrives
    \/ GetData

SpecSizes ==
    InitWith(StackZero)
    /\ [][NextSizes]_vars

\* C38: keyboard_handler_process_report called with a missing report or
\* with a size other than 8 returns KEYBOARD_HANDLER_ERROR and leaves the
\* queue (head, tail, count and contents) and the last captured snapshot
\* unchanged.
C38_BadReportRejected ==
    [][ \A report \in SizedReports, report_null \in BOOLEAN,
           report_size \in ReportSizes :
             (/\ report_null \/ report_size # 8
              /\ ProcessReportWith(report, report_null, report_size))
               => /\ ev'.ret = "KEYBOARD_HANDLER_ERROR"
                  /\ buffer_head' = buffer_head
                  /\ buffer_tail' = buffer_tail
                  /\ buffer_count' = buffer_count
                  /\ keyboard_buffer' = keyboard_buffer
                  /\ last_keyboard_state' = last_keyboard_state ]_vars

\* A report of a size other than 8 was rejected while the queue held a
\* snapshot and get_data was between its load and its store of the count.
C38_Witness ==
    /\ ev.op = "process_report"
    /\ ev.ret = "KEYBOARD_HANDLER_ERROR"
    /\ ev.report # <<0, 0, 0, 0, 0, 0, 0, 0>>
    /\ buffer_count = 2
    /\ buffer_head = 2
    /\ last_keyboard_state # ZeroKeyboardData
    /\ last_keyboard_state # keyboard_parse_hid_report(ev.report)
    /\ mpc = "gd_store"

-----------------------------------------------------------------------------
(* The queue operations called with interrupts enabled or disabled *)

\* The caller of the queue operations sets or clears PRIMASK between two
\* calls: the interrupt state an operation is entered with
CallerSetsMask ==
    /\ mpc = "idle"
    /\ primask' = 1 - primask
    /\ ev' = NoCall
    /\ UNCHANGED <<keyboard_buffer, buffer_head, buffer_tail, buffer_count,
                   last_keyboard_state, mpc, reg, gd_out, nsent, nclear,
                   pending, live, overwritten, tvars, fvars, ovars, mret>>
    /\ UNCHANGED primask_entry

\* keyboard_handler_process_report called in the main context while
\* interrupts are disabled
MaskedReportArrives ==
    /\ primask = 1
    /\ mpc = "idle"
    /\ nsent < MaxQueueReports
    /\ \E report \in FifoReports :
          /\ ProcessReportEffect(report)
          /\ nsent' = IF report = FreshReport(nsent) THEN nsent + 1 ELSE nsent
    /\ UNCHANGED <<buffer_tail, mpc, reg, gd_out, nclear, tvars, fvars,
                   ovars, mret>>

NextMask ==
    \/ CallerSetsMask
    \/ QueueReportArrives
    \/ MaskedReportArrives
    \/ GetData
    \/ ClearBuffer

SpecMask ==
    InitWith(StackZero)
    /\ [][NextMask]_vars

=============================================================================
